---- MODULE Spec2Model ----
(***************************************************************************)
(* Battleship session server (src/server.py) with its board model          *)
(* (src/battleship.py) and per-player placement (src/ship_placement.py).   *)
(*                                                                         *)
(* One Session (GameState) with two player seats and its spectators, and   *)
(* the Lobby that forms it.  Every handler action is one pass through the  *)
(* body of handle_player's read loop for one received frame (or one        *)
(* timeout / read failure), including every send it makes and the          *)
(* handler's exit path where the pass leaves the loop.  Every Lobby action *)
(* is one pass through the body of lobby's accept loop.                    *)
(***************************************************************************)
EXTENDS Integers, Sequences, FiniteSets, TLC

\* ------------------------------------------------------------------------
\* Program constants
\* ------------------------------------------------------------------------
BOARD_SIZE == 10

PACKET_TYPE_JOIN == 0
PACKET_TYPE_FIRE == 1
PACKET_TYPE_SHOW == 2
PACKET_TYPE_QUIT == 3
PACKET_TYPE_CHAT == 4
PACKET_TYPE_PLACE == 5
PACKET_TYPE_ERROR == 255

SHIPS == << [name |-> "Carrier",    size |-> 5],
            [name |-> "Battleship", size |-> 4],
            [name |-> "Cruiser",    size |-> 3],
            [name |-> "Submarine",  size |-> 3],
            [name |-> "Destroyer",  size |-> 2] >>

Seats == {0, 1}
Cells == (0 .. BOARD_SIZE - 1) \X (0 .. BOARD_SIZE - 1)

\* a seat or a list slot that holds no connection
NoConn == 0 - 1

\* ------------------------------------------------------------------------
\* Bounds of the model: the inputs clients are allowed to send
\* ------------------------------------------------------------------------
\* the one sequence number clients put in their frames (timeout frames of
\* the server carry 0)
ClientSeq == 1

\* the seat whose client also sends the probing PLACE and the hunting FIRE
\* inputs; the other seat's client follows the placement script and fires
\* only at the probe coordinates
ProbingSeat == 0

\* byte lengths of the coordinate texts clients send: "A1" and a coordinate
\* whose number is written with leading zeros
ShortLen == 2
LongLen == 240

\* the number of connections that exist at one time; a connection is named
\* by the lowest number that nothing refers to when it is accepted
MaxConns == 4

\* the codec's short payloads have up to PayloadLen characters, and the
\* frames a bit is flipped in up to FlipLen bytes
PayloadLen == 2
FlipLen == 12

\* the two handlers of a match call switch_turn up to MaxToggles times
MaxToggles == 3

\* up to MaxBoards renderings are sent on a connection, Variants of each
\* length, and a recv may return as few as Segment bytes
MaxBoards == 2
Variants == 2
Segment == 131

None == "None"

\* the display names clients join with, in the order in which clients that
\* are not attached connect; the first two are players, the others come
\* when the Session exists and differ from the players' names
Clients == << "Alice", "Bob", "Carol", "Dave" >>

\* a display name of LongLen bytes
LongName == "L...L"

\* ------------------------------------------------------------------------
\* Text conversions
\* ------------------------------------------------------------------------
\* str.lower() on the ship names of the model
Lower(s) ==
    CASE s = "Carrier"    -> "carrier"
      [] s = "carrier"    -> "carrier"
      [] s = "Battleship" -> "battleship"
      [] s = "Cruiser"    -> "cruiser"
      [] s = "Submarine"  -> "submarine"
      [] s = "Destroyer"  -> "destroyer"
      [] s = "Tugboat"    -> "tugboat"
      [] OTHER            -> s

\* str.upper() on one character code
Upper(ch) == IF ch \in 97 .. 122 THEN ch - 32 ELSE ch

\* row = ord(coord[0].upper()) - ord('A')
ParseRow(coord) == Upper(coord.ch) - 65

\* a coordinate text: the code of its first character, the value of the
\* rest (numeric = FALSE: int() raises ValueError on it) and its length
Coord(ch, num, len) == [ch |-> ch, num |-> num, numeric |-> TRUE, len |-> len]
BadCoord(ch) == [ch |-> ch, num |-> 0, numeric |-> FALSE, len |-> ShortLen]

\* len(s.encode()) of the names and ship names of the model
StrLen(s) ==
    CASE s = "Alice" -> 5
      [] s = "Bob" -> 3
      [] s = "Carol" -> 5
      [] s = "Dave" -> 4
      [] s = LongName -> LongLen
      [] s \in {"Carrier", "carrier", "Cruiser", "Tugboat"} -> 7
      [] s = "Battleship" -> 10
      [] s \in {"Submarine", "Destroyer", "Anonymous"} -> 9
      [] OTHER -> 0

\* build_packet raises ValueError for a payload of more than 255 bytes
MaxPayload == 255

\* the largest sequence number a frame carries: one byte (seq & 0xFF)
MaxSeq == 255
PayloadTooLong(n) == n > MaxPayload

\* col = int(coord[1:]) - 1      (int() raises when ~coord.numeric)
ParseCol(coord) == coord.num - 1

\* a Python list of BOARD_SIZE entries accepts the indices -size .. size-1
\* and maps a negative index i to size + i
ValidIndex(i) == i \in (0 - BOARD_SIZE) .. (BOARD_SIZE - 1)
ListIndex(i) == i % BOARD_SIZE
GridCell(row, col) == << ListIndex(row), ListIndex(col) >>

\* ------------------------------------------------------------------------
\* State
\* ------------------------------------------------------------------------
VARIABLES
    hidden_grid,          \* Board.hidden_grid of placements[i].board
    display_grid,         \* Board.display_grid of placements[i].board
    board_placed_ships,   \* Board.placed_ships: list of name/positions
    placed_ships,         \* ShipPlacement.placed_ships: set of names
    current_turn,         \* GameState.current_turn
    placement_phase,      \* GameState.placement_phase
    placement_complete,   \* GameState.placement_complete
    running,              \* seat's handler is in its loop, its socket open
    reconnect_pool,       \* name -> opponent index of the saved seat
    out,                  \* frames sent during the last handler or Lobby pass
    players,              \* GameState.players: the connection of each seat
    names,                \* GameState.names: players' then spectators' names
    spectators,           \* GameState.spectators: list of open connections
    handlers,             \* spectator handler threads: the connection and the
                          \* name each one bound when it started, keyed by
                          \* the connection whose accept started it
    waiting,              \* lobby: connections waiting to be paired
    waiting_names,        \* lobby: their names (the local list `names`)
    current_game,         \* lobby: a GameState has been created
    accepting,            \* lobby: the accept loop is running
    outgoing,             \* codec: what the sender is asked to send
    stream,               \* codec: the bytes on their way to the receiver
    flips,                \* codec: how many bits of them were flipped
    received,             \* codec: what the receiver's last decode gave
    buffer,               \* client receive_messages: buffer
    board_buffer,         \* client receive_messages: board_buffer
    awaiting_board,       \* client receive_messages: awaiting_board
    printed,              \* client receive_messages: the boards printed
    pc,                   \* handler of a seat: the statement it is about to run
    local,                \* handler of a seat: the frame it is working on
    lock,                 \* GameState.lock: the seats whose handler holds it
    toggles,              \* how many times switch_turn has written current_turn
    starts                \* how many times start_game has run

boards  == << hidden_grid, display_grid, board_placed_ships >>
game    == << current_turn, placement_phase, placement_complete >>
session == << players, names, spectators, handlers >>
queue   == << waiting, waiting_names, current_game, accepting >>
client  == << buffer, board_buffer, awaiting_board, printed >>
threads == << pc, local, lock, toggles, starts >>
link    == << outgoing, stream, flips, received, buffer, board_buffer,
              awaiting_board, printed, threads >>
vars    == << hidden_grid, display_grid, board_placed_ships, placed_ships,
              current_turn, placement_phase, placement_complete,
              running, reconnect_pool, out,
              players, names, spectators, handlers,
              waiting, waiting_names, current_game, accepting,
              outgoing, stream, flips, received, buffer, board_buffer,
              awaiting_board, printed, pc, local, lock, toggles, starts >>

\* receive_messages before its loop
ClientIdle ==
    /\ buffer = << >>
    /\ board_buffer = << >>
    /\ awaiting_board = FALSE
    /\ printed = << >>

\* a handler between two frames: it waits in parse_packet
Idle == [task |-> "none", coord |-> BadCoord(0), result |-> "none",
         sunk |-> None, turn |-> 0, value |-> 0]

\* every handler waits for a frame and the lock is free
ThreadsIdle ==
    /\ pc = [i \in Seats |-> "read"]
    /\ local = [i \in Seats |-> Idle]
    /\ lock = {}
    /\ toggles = 0
    /\ starts = 0

\* nothing is being sent to a receiver
LinkIdle ==
    /\ ThreadsIdle
    /\ outgoing = None
    /\ stream = << >>
    /\ flips = 0
    /\ received = None
    /\ ClientIdle

\* ------------------------------------------------------------------------
\* Frames
\* ------------------------------------------------------------------------
\* build_packet(seq, pkt_type, payload) handed to the connection `to`; the
\* payload is kept as its message kind and its variable part, and for a
\* board rendering as the cells its bytes show
Frame(to, seq, type, text, arg) ==
    [to |-> to, seq |-> seq % 256, type |-> type, text |-> text, arg |-> arg,
     body |-> {}]

get_opponent_index(i) == 1 - i

\* sendall on the socket of a seat raises once that socket was closed
SendRaises(seat) == ~running[seat]

\* broadcast_to_all: one CHAT frame with seq 0 to every socket of
\* game.players + game.spectators, failures ignored
broadcast_to_all(text, arg) ==
    LET Go[i \in 0 .. 2] ==
            IF i = 2 THEN << >>
            ELSE (IF SendRaises(i) THEN << >>
                  ELSE << Frame(players[i], 0, PACKET_TYPE_CHAT, text, arg) >>)
                 \o Go[i + 1]
    IN Go[0] \o [k \in 1 .. Len(spectators) |->
                   Frame(spectators[k], 0, PACKET_TYPE_CHAT, text, arg)]

\* ------------------------------------------------------------------------
\* Board (src/battleship.py)
\* ------------------------------------------------------------------------
EmptyGrid == [c \in Cells |-> "."]

\* range(start, start + ship_size) along the orientation
RunCells(row, col, ship_size, orientation) ==
    IF orientation = 0
    THEN { << row, c >> : c \in col .. (col + ship_size - 1) }
    ELSE { << r, col >> : r \in row .. (row + ship_size - 1) }

\* Board.can_place_ship: "raise" for an IndexError on the grid read, else
\* "yes" for True and "no" for False
can_place_ship(grid, row, col, ship_size, orientation) ==
    IF orientation = 0
    THEN IF col + ship_size > BOARD_SIZE THEN "no"
         ELSE IF ~ValidIndex(row) \/ ~ValidIndex(col) THEN "raise"
         ELSE IF \E rc \in RunCells(row, col, ship_size, 0) :
                    grid[GridCell(rc[1], rc[2])] # "."
              THEN "no" ELSE "yes"
    ELSE IF row + ship_size > BOARD_SIZE THEN "no"
         ELSE IF ~ValidIndex(row) \/ ~ValidIndex(col) THEN "raise"
         ELSE IF \E rc \in RunCells(row, col, ship_size, 1) :
                    grid[GridCell(rc[1], rc[2])] # "."
              THEN "no" ELSE "yes"

\* Board.do_place_ship: the grid after writing 'S' along the run; the
\* returned occupied set is RunCells (the indices as they were computed)
do_place_ship(grid, row, col, ship_size, orientation) ==
    LET run == { GridCell(rc[1], rc[2]) :
                   rc \in RunCells(row, col, ship_size, orientation) }
    IN [c \in Cells |-> IF c \in run THEN "S" ELSE grid[c]]

\* Board.fire_at, outcome: "raise" for an IndexError on the grid read
fire_at_result(grid, row, col) ==
    IF ~ValidIndex(row) \/ ~ValidIndex(col) THEN "raise"
    ELSE LET cell == grid[GridCell(row, col)]
         IN IF cell = "S" THEN "hit"
            ELSE IF cell = "." THEN "miss"
            ELSE "already_shot"

\* Board.fire_at, effect on hidden_grid and display_grid alike: 'X' on a
\* ship cell, 'o' on an empty cell, nothing on a resolved cell
fire_at_grid_Reopen(grid, result, row, col) ==
    IF result = "hit"
    THEN [grid EXCEPT ![GridCell(row, col)] = "X"]
    ELSE IF result = "miss"
    THEN [grid EXCEPT ![GridCell(row, col)] = "o"]
    ELSE [grid EXCEPT ![GridCell(row, col)] = "."]

fire_at_grid(grid, result, row, col) ==
    IF result = "hit"
    THEN [grid EXCEPT ![GridCell(row, col)] = "X"]
    ELSE IF result = "miss"
    THEN [grid EXCEPT ![GridCell(row, col)] = "o"]
    ELSE grid

\* Board._mark_hit_and_check_sunk: index of the first ship of the list whose
\* positions hold (row, col), 0 when there is none
HitShipIndex(ships, row, col) ==
    LET idx == { i \in 1 .. Len(ships) : << row, col >> \in ships[i].positions }
    IN IF idx = {} THEN 0
       ELSE CHOOSE i \in idx : \A j \in idx : i <= j

\* Board._mark_hit_and_check_sunk: the ship list after removing (row, col)
mark_hit(ships, row, col) ==
    LET i == HitShipIndex(ships, row, col)
    IN IF i = 0 THEN ships
       ELSE [ships EXCEPT ![i].positions = @ \ { << row, col >> }]

\* Board._mark_hit_and_check_sunk: the name it returns, None when the hit
\* ship has cells left or no ship holds (row, col)
check_sunk_Early(ships, row, col) ==
    LET i == HitShipIndex(ships, row, col)
    IN IF i # 0 THEN ships[i].name ELSE None

check_sunk(ships, row, col) ==
    LET i == HitShipIndex(ships, row, col)
    IN IF i # 0 /\ ships[i].positions = { << row, col >> }
       THEN ships[i].name ELSE None

\* Board.all_ships_sunk
all_ships_sunk(ships) ==
    \A i \in 1 .. Len(ships) : ships[i].positions = {}

\* ------------------------------------------------------------------------
\* ShipPlacement (src/ship_placement.py)
\* ------------------------------------------------------------------------
\* next((size for name, size in SHIPS if name.lower() == ship_name.lower()),
\* None); 0 stands for None
ship_size_of(ship_name) ==
    LET idx == { i \in 1 .. Len(SHIPS) : Lower(SHIPS[i].name) = Lower(ship_name) }
    IN IF idx = {} THEN 0
       ELSE SHIPS[CHOOSE i \in idx : \A j \in idx : i <= j].size

\* `ship_name in self.placed_ships`: membership of the name as it was sent
already_placed(placed, ship_name) == ship_name \in placed

\* orientation = 0 if orientation.upper() == 'H' else 1
ParseOrientation(o) == IF o \in {"H", "h"} THEN 0 ELSE 1

\* ShipPlacement.place_ship: the message it returns with success = False,
\* or "Placed" when the ship is committed
place_ship_result(grid, placed, cmd) ==
    IF ship_size_of(cmd.ship_name) = 0 THEN "Unknown ship"
    ELSE IF already_placed(placed, cmd.ship_name) THEN "already placed"
    ELSE IF ~cmd.coord.numeric THEN "Invalid placement"
    ELSE LET can == can_place_ship(grid, ParseRow(cmd.coord), ParseCol(cmd.coord),
                                   ship_size_of(cmd.ship_name),
                                   ParseOrientation(cmd.orientation))
         IN IF can = "raise" THEN "Invalid placement"
            ELSE IF can = "no" THEN "Cannot place ship there"
            ELSE "Placed"

\* ShipPlacement.is_complete
is_complete(placed) == Cardinality(placed) = Len(SHIPS)

\* GameState.check_placement_complete
check_placement_complete(complete) == \A i \in Seats : complete[i]

\* ------------------------------------------------------------------------
\* Inputs
\* ------------------------------------------------------------------------
PlaceCmd(coord, orientation, ship_name) ==
    [parts |-> 3, coord |-> coord, orientation |-> orientation,
     ship_name |-> ship_name]

\* a PLACE payload that does not split into three parts
MalformedPlace ==
    [parts |-> 2, coord |-> BadCoord(65), orientation |-> "H",
     ship_name |-> "Carrier"]

\* the placement every client works through in order: the roster ships in
\* rows A..E from column 1, horizontally
PlaceScript ==
    << PlaceCmd(Coord(65, 1, ShortLen), "H", "Carrier"),
       PlaceCmd(Coord(66, 1, ShortLen), "H", "Battleship"),
       PlaceCmd(Coord(67, 1, ShortLen), "H", "Cruiser"),
       PlaceCmd(Coord(68, 1, ShortLen), "H", "Submarine"),
       PlaceCmd(Coord(69, 1, ShortLen), "H", "Destroyer") >>

\* PLACE payloads of the probing client that no board accepts: a run past
\* column 10 ("A8 H Battleship"), a row after J ("K1 H Submarine"), a
\* number that does not parse, a ship that is not in the roster, two parts
PlaceRejects ==
    { PlaceCmd(Coord(65, 8, ShortLen), "H", "Battleship"),
      PlaceCmd(Coord(75, 1, ShortLen), "H", "Submarine"),
      PlaceCmd(BadCoord(65), "H", "Destroyer"),
      PlaceCmd(Coord(65, 1, ShortLen), "H", "Tugboat"),
      MalformedPlace }

\* PLACE payloads of the probing client that a board may accept: a roster
\* name in another case ("F1 H carrier"), column 0 ("G0 H Destroyer"), a
\* vertical run from A1 ("a1 v Cruiser"), a coordinate written with leading
\* zeros ("E0...01 H Destroyer")
PlaceProbes ==
    { PlaceCmd(Coord(70, 1, ShortLen), "H", "carrier"),
      PlaceCmd(Coord(71, 0, ShortLen), "H", "Destroyer"),
      PlaceCmd(Coord(97, 1, ShortLen), "v", "Cruiser"),
      PlaceCmd(Coord(69, 1, LongLen), "H", "Destroyer") }

\* index of the first script entry whose ship this seat has not placed
NextScript(p) ==
    LET todo == { i \in 1 .. Len(PlaceScript) :
                    PlaceScript[i].ship_name \notin placed_ships[p] }
    IN IF todo = {} THEN Len(PlaceScript)
       ELSE CHOOSE i \in todo : \A j \in todo : i <= j

\* the PLACE payloads seat p may send next in a match: the script up to its
\* next entry (earlier entries are re-sends), and for the probing seat the
\* payloads no board accepts
PlaceInputs(p) ==
    { PlaceScript[i] : i \in 1 .. NextScript(p) }
      \cup (IF p = ProbingSeat THEN PlaceRejects ELSE {})

\* the same with the probes a board may accept
PlaceProbeInputs(p) ==
    PlaceInputs(p) \cup (IF p = ProbingSeat THEN PlaceProbes ELSE {})

\* FIRE payloads every client may send: "a1", "A0", "K1", a number that
\* does not parse, "A1" written with leading zeros
FireProbes ==
    { Coord(97, 1, ShortLen), Coord(65, 0, ShortLen),
      Coord(75, 1, ShortLen), BadCoord(65), Coord(65, 1, LongLen) }

\* the FIRE payloads sent while placement is probed: "a1" and a number that
\* does not parse
FewFireProbes == { Coord(97, 1, ShortLen), BadCoord(65) }

\* the remaining positions of all ships of a board
Remaining(ships) == UNION { ships[i].positions : i \in 1 .. Len(ships) }

\* the first remaining position of the board in row-major order, as a FIRE
\* payload (row -1 is sent as '@', column c as the number c + 1)
NextTarget(ships) ==
    LET rem == Remaining(ships)
        first == CHOOSE rc \in rem : \A o \in rem :
                     rc[1] < o[1] \/ (rc[1] = o[1] /\ rc[2] <= o[2])
    IN IF rem = {} THEN {}
       ELSE { Coord(first[1] + 65, first[2] + 1, ShortLen) }

\* the FIRE payloads seat p may send next: the probes, and for the probing
\* seat the next cell of a systematic hunt through the opponent's ships
FireInputs(p) ==
    FireProbes \cup
      (IF p = ProbingSeat
       THEN NextTarget(board_placed_ships[get_opponent_index(p)]) ELSE {})

\* ------------------------------------------------------------------------
\* Initial state: the Lobby has paired two clients into a GameState and has
\* started one handler per seat
\* ------------------------------------------------------------------------
Init ==
    /\ hidden_grid = [i \in Seats |-> EmptyGrid]
    /\ display_grid = [i \in Seats |-> EmptyGrid]
    /\ board_placed_ships = [i \in Seats |-> << >>]
    /\ placed_ships = [i \in Seats |-> {}]
    /\ current_turn = 0
    /\ placement_phase = TRUE
    /\ placement_complete = [i \in Seats |-> FALSE]
    /\ running = [i \in Seats |-> TRUE]
    /\ reconnect_pool = {}
    /\ out = << >>
    /\ players = [i \in Seats |-> i]
    /\ names = << Clients[1], Clients[2] >>
    /\ spectators = << >>
    /\ handlers = << >>
    /\ waiting = << >>
    /\ waiting_names = << >>
    /\ current_game = TRUE
    /\ accepting = TRUE
    /\ LinkIdle

\* GameState.switch_turn
switch_turn(turn) == 1 - turn

\* reconnect_pool[name] = (game.placements, opp_idx, game); `old` tells
\* whether RECONNECT_TIMEOUT seconds have passed since the entry was made,
\* which the entry itself does not record
pool_put(pool, name, opp_idx) ==
    { e \in pool : e.name # name }
      \cup { [name |-> name, opp_idx |-> opp_idx, old |-> FALSE] }

\* ------------------------------------------------------------------------
\* handle_player, PLACE branch
\* ------------------------------------------------------------------------
\* `if not game.placement_phase`: the PLACE is refused
PlaceRefused == ~placement_phase

\* byte length of f"Placed {ship_name} at {coord}"
PlacedMsgLen(cmd) == 7 + StrLen(cmd.ship_name) + 4 + cmd.coord.len

Place(p, cmd) ==
    /\ running[p]
    /\ UNCHANGED << session, queue, link >>
    /\ IF PlaceRefused
       THEN /\ out' = << Frame(players[p], ClientSeq, PACKET_TYPE_ERROR,
                               "Placement phase is over.", None) >>
            /\ UNCHANGED << boards, placed_ships, game, running, reconnect_pool >>
       ELSE IF cmd.parts # 3
       THEN /\ out' = << Frame(players[p], ClientSeq, PACKET_TYPE_ERROR,
                               "Invalid placement", "Invalid format") >>
            /\ UNCHANGED << boards, placed_ships, game, running, reconnect_pool >>
       ELSE LET message == place_ship_result(hidden_grid[p], placed_ships[p], cmd)
                row == ParseRow(cmd.coord)
                col == ParseCol(cmd.coord)
                size == ship_size_of(cmd.ship_name)
                orientation == ParseOrientation(cmd.orientation)
                placed == placed_ships[p] \cup { cmd.ship_name }
                complete == [placement_complete EXCEPT ![p] = TRUE]
            IN IF message # "Placed"
               THEN /\ out' = << Frame(players[p], ClientSeq, PACKET_TYPE_ERROR, message, None) >>
                    /\ UNCHANGED << boards, placed_ships, game, running, reconnect_pool >>
               ELSE /\ hidden_grid' = [hidden_grid EXCEPT ![p] =
                            do_place_ship(@, row, col, size, orientation)]
                    /\ board_placed_ships' = [board_placed_ships EXCEPT ![p] =
                            Append(@, [name |-> cmd.ship_name,
                                       positions |-> RunCells(row, col, size, orientation)])]
                    /\ placed_ships' = [placed_ships EXCEPT ![p] = placed]
                    /\ UNCHANGED << display_grid, current_turn, running, reconnect_pool >>
                    /\ IF PayloadTooLong(PlacedMsgLen(cmd))
                       THEN /\ out' = << Frame(players[p], ClientSeq, PACKET_TYPE_ERROR,
                                               "Invalid placement", "Payload too long") >>
                            /\ UNCHANGED << placement_phase, placement_complete >>
                       ELSE IF ~is_complete(placed)
                       THEN /\ out' = << Frame(players[p], ClientSeq, PACKET_TYPE_CHAT, "Placed", None) >>
                            /\ UNCHANGED << placement_phase, placement_complete >>
                       ELSE IF ~check_placement_complete(complete)
                       THEN /\ out' = << Frame(players[p], ClientSeq, PACKET_TYPE_CHAT, "Placed", None),
                                         Frame(players[p], ClientSeq, PACKET_TYPE_CHAT,
                                               "All ships placed! Waiting for opponent...", None) >>
                            /\ placement_complete' = complete
                            /\ UNCHANGED placement_phase
                       ELSE /\ out' = << Frame(players[p], ClientSeq, PACKET_TYPE_CHAT, "Placed", None),
                                         Frame(players[p], ClientSeq, PACKET_TYPE_CHAT,
                                               "All ships placed! Waiting for opponent...", None) >>
                                       \o broadcast_to_all("Game started! Fire away.", None)
                            /\ placement_complete' = complete
                            /\ placement_phase' = FALSE

\* ------------------------------------------------------------------------
\* handle_player, FIRE branch
\* ------------------------------------------------------------------------
\* the phase test left out: a FIRE is resolved in every phase
FireRefused_Never == FALSE

\* `if game.placement_phase`: the FIRE is refused
FireRefused == placement_phase

\* msg = f"{result.upper()} <dash> Sunk {sunk}" if sunk else result.upper()
FireMsg(result, sunk) ==
    IF sunk # None THEN "HIT - Sunk"
    ELSE IF result = "hit" THEN "HIT"
    ELSE IF result = "miss" THEN "MISS"
    ELSE "ALREADY_SHOT"

FireMsgLen(result, sunk) ==
    IF sunk # None THEN 3 + 10 + 5 + StrLen(sunk)
    ELSE IF result = "hit" THEN 3
    ELSE IF result = "miss" THEN 4
    ELSE 12

\* byte length of f"{name} fired at {payload}: {msg}"
FiredMsgLen(p, coord, result, sunk) ==
    StrLen(names[p + 1]) + 10 + coord.len + 2 + FireMsgLen(result, sunk)

\* the turn after a resolved FIRE that did not win: game.switch_turn()
TurnAfterFire(result, turn) == switch_turn(turn)

\* `result == 'hit' and ...all_ships_sunk()`
IsWin(result, ships) == result = "hit" /\ all_ships_sunk(ships)

\* what the try block of the FIRE branch gets from parsing the payload and
\* from fire_at on the opponent's board ("raise": one of them raised)
FireOutcome(p, coord) ==
    IF ~coord.numeric THEN "raise"
    ELSE fire_at_result(hidden_grid[get_opponent_index(p)],
                        ParseRow(coord), ParseCol(coord))

Fire(p, coord) ==
    LET opp == get_opponent_index(p)
        row == ParseRow(coord)
        col == ParseCol(coord)
        result == FireOutcome(p, coord)
        sunk == IF result = "hit"
                THEN check_sunk(board_placed_ships[opp], row, col) ELSE None
        ships == IF result = "hit"
                 THEN mark_hit(board_placed_ships[opp], row, col)
                 ELSE board_placed_ships[opp]
        msg == FireMsg(result, sunk)
        invalid == Frame(players[p], ClientSeq, PACKET_TYPE_ERROR, "Invalid FIRE format.", None)
        sent == << Frame(players[p], ClientSeq, PACKET_TYPE_FIRE, "RESULT", msg) >>
        told == sent \o << Frame(players[opp], ClientSeq, PACKET_TYPE_FIRE, "fired at", msg) >>
                     \o broadcast_to_all("fired at", msg)
    IN
    /\ running[p]
    /\ UNCHANGED << session, queue, link >>
    /\ IF FireRefused
       THEN /\ out' = << Frame(players[p], ClientSeq, PACKET_TYPE_ERROR,
                               "Game hasn't started yet. Place your ships first.", None) >>
            /\ UNCHANGED << boards, placed_ships, game, running, reconnect_pool >>
       ELSE IF result = "raise"
       THEN /\ out' = << invalid >>
            /\ UNCHANGED << boards, placed_ships, game, running, reconnect_pool >>
       ELSE /\ hidden_grid' = [hidden_grid EXCEPT ![opp] = fire_at_grid(@, result, row, col)]
            /\ display_grid' = [display_grid EXCEPT ![opp] = fire_at_grid(@, result, row, col)]
            /\ board_placed_ships' = [board_placed_ships EXCEPT ![opp] = ships]
            /\ UNCHANGED << placed_ships, placement_phase, placement_complete, reconnect_pool >>
            /\ IF PayloadTooLong(FiredMsgLen(p, coord, result, sunk)) \/ SendRaises(opp)
               THEN /\ out' = sent \o << invalid >>
                    /\ UNCHANGED << current_turn, running >>
               ELSE IF IsWin(result, ships)
               THEN /\ out' = told \o << Frame(players[p], ClientSeq, PACKET_TYPE_CHAT, "You win!", None),
                                         Frame(players[opp], ClientSeq, PACKET_TYPE_CHAT, "You lose!", None) >>
                    /\ running' = [running EXCEPT ![p] = FALSE]
                    /\ UNCHANGED current_turn
               ELSE /\ out' = told
                    /\ current_turn' = TurnAfterFire(result, current_turn)
                    /\ UNCHANGED running

\* ------------------------------------------------------------------------
\* handle_player, the other branches
\* ------------------------------------------------------------------------
\* len(view.encode()) of Board.render_display_grid(): the header line, ten
\* row lines, one newline after each
RenderLen ==
    (4 + 2 * BOARD_SIZE + 2 * (BOARD_SIZE - 1)) + 1
      + BOARD_SIZE * (4 + BOARD_SIZE + 2 * (BOARD_SIZE - 1) + 1)

\* send_board_in_chunks: the number of chunks of at most 255 - 5 bytes
ChunkCount(n) == (n + (255 - 5) - 1) \div (255 - 5)

\* Board.render_display_grid: the byte of the rendering that shows the cell
\* (r, c): after the header line, in row line r, after the row letter and
\* three blanks, every cell followed by two blanks
CellOffset(r, c) ==
    ((4 + 2 * BOARD_SIZE + 2 * (BOARD_SIZE - 1)) + 1)
      + r * (4 + BOARD_SIZE + 2 * (BOARD_SIZE - 1) + 1) + 4 + 3 * c

\* the cells that the bytes from .. to - 1 of a rendering show
SliceCells(from, to) ==
    { d \in Cells : CellOffset(d[1], d[2]) >= from /\ CellOffset(d[1], d[2]) < to }

\* board_str[i:i+max_payload] for each chunk i, as the cells it shows
ChunkCells ==
    [i \in 1 .. ChunkCount(RenderLen) |->
        SliceCells((i - 1) * (255 - 5), i * (255 - 5))]

\* the cells of a set, with the marks a grid has in them
RenderSlice(grid, cells) == { << c, grid[c] >> : c \in cells }

\* the SHOW frames that answer a SHOW with the rendering of one grid: one
\* frame, or send_board_in_chunks when the rendering is over 255 bytes
ShowFrames(to, seq, grid) ==
    IF PayloadTooLong(RenderLen)
    THEN [i \in 1 .. ChunkCount(RenderLen) |->
            [Frame(to, seq, PACKET_TYPE_SHOW,
                   IF i = ChunkCount(RenderLen) THEN "LAST" ELSE "MORE", None)
               EXCEPT !.body = RenderSlice(grid, ChunkCells[i])]]
    ELSE << [Frame(to, seq, PACKET_TYPE_SHOW, "board", None)
               EXCEPT !.body = RenderSlice(grid, Cells)] >>

\* the seat whose board the handler renders: its own, not the opponent's
ShownBoard_Opponent(p) == get_opponent_index(p)

\* placement = game.placements[player_idx]: the seat whose board the
\* handler of seat p renders
ShownBoard(p) == p

Show(p) ==
    /\ running[p]
    /\ UNCHANGED << session, queue, link >>
    /\ UNCHANGED << boards, placed_ships, game, running, reconnect_pool >>
    /\ out' = ShowFrames(players[p], ClientSeq, display_grid[ShownBoard(p)])

\* byte length of f"[{name}]: {payload}"
ChatMsgLen(p, len) == 1 + StrLen(names[p + 1]) + 3 + len

\* a CHAT frame with a payload of len bytes; build_packet raising inside
\* broadcast_to_all is caught by the loop's `except Exception`
Chat(p, len) ==
    /\ running[p]
    /\ UNCHANGED << session, queue, link >>
    /\ IF PayloadTooLong(ChatMsgLen(p, len))
       THEN /\ reconnect_pool' = pool_put(reconnect_pool, names[p + 1], get_opponent_index(p))
            /\ running' = [running EXCEPT ![p] = FALSE]
            /\ out' = << >>
       ELSE /\ out' = broadcast_to_all("chat", names[p + 1])
            /\ UNCHANGED << running, reconnect_pool >>
    /\ UNCHANGED << boards, placed_ships, game >>

\* the types the dispatch of handle_player has a branch for
KnownTypes ==
    { PACKET_TYPE_QUIT, PACKET_TYPE_SHOW, PACKET_TYPE_PLACE,
      PACKET_TYPE_CHAT, PACKET_TYPE_FIRE }

\* the answer of the last branch with the sequence number left out
UnknownReply_Seq0(to, seq) ==
    Frame(to, 0, PACKET_TYPE_ERROR, "Unknown command.", None)

\* build_packet(seq, PACKET_TYPE_ERROR, "Unknown command.")
UnknownReply(to, seq) ==
    Frame(to, seq, PACKET_TYPE_ERROR, "Unknown command.", None)

\* a frame with sequence number seq whose type is none of QUIT, SHOW, PLACE,
\* CHAT, FIRE
Unknown(p, seq, type) ==
    /\ running[p]
    /\ type \notin KnownTypes
    /\ UNCHANGED << session, queue, link >>
    /\ out' = << UnknownReply(players[p], seq) >>
    /\ UNCHANGED << boards, placed_ships, game, running, reconnect_pool >>

Quit(p) ==
    LET opp == get_opponent_index(p)
        bye == Frame(players[p], ClientSeq, PACKET_TYPE_QUIT, "You quit.", None)
    IN
    /\ running[p]
    /\ UNCHANGED << session, queue, link >>
    /\ running' = [running EXCEPT ![p] = FALSE]
    /\ IF SendRaises(opp)
       THEN /\ out' = << bye >>
            /\ reconnect_pool' = pool_put(reconnect_pool, names[p + 1], opp)
       ELSE /\ out' = << bye, Frame(players[opp], ClientSeq, PACKET_TYPE_CHAT, "quit. You win!", names[p + 1]) >>
            /\ UNCHANGED reconnect_pool
    /\ UNCHANGED << boards, placed_ships, game >>

\* the turn after the inactivity timeout of seat p: game.switch_turn()
TurnAfterTimeout(p, turn) == switch_turn(turn)

\* `except socket.timeout`; a send that raises inside this clause leaves the
\* loop through the outer `except Exception`
Timeout(p) ==
    LET opp == get_opponent_index(p)
        forfeit == Frame(players[p], 0, PACKET_TYPE_ERROR, "Timeout. You forfeit your turn.", None)
    IN
    /\ running[p]
    /\ UNCHANGED << session, queue, link >>
    /\ IF SendRaises(opp)
       THEN /\ out' = << forfeit >>
            /\ running' = [running EXCEPT ![p] = FALSE]
            /\ UNCHANGED current_turn
       ELSE /\ out' = << forfeit, Frame(players[opp], 0, PACKET_TYPE_CHAT, "timed out.", names[p + 1]) >>
            /\ current_turn' = TurnAfterTimeout(p, current_turn)
            /\ UNCHANGED running
    /\ UNCHANGED << boards, placed_ships, placement_phase, placement_complete, reconnect_pool >>

\* what the socket delivers for one frame: how many bytes of the header,
\* the length byte, how many bytes of payload and of checksum arrive before
\* the stream ends, the checksum received and zlib.crc32 of what arrived
Wire(header, length, payload, crc_bytes, received_crc, calculated_crc) ==
    [header |-> header, length |-> length, payload |-> payload,
     crc_bytes |-> crc_bytes, received_crc |-> received_crc,
     calculated_crc |-> calculated_crc]

\* parse_packet: "raise" for each ValueError it raises, else "frame"
parse_packet(w) ==
    IF w.header < 3 THEN "raise"
    ELSE IF w.payload < w.length THEN "raise"
    ELSE IF w.crc_bytes < 4 THEN "raise"
    ELSE IF w.received_crc # w.calculated_crc THEN "raise"
    ELSE "frame"

\* the stream ends before a frame (peer closed)
ClosedWire == Wire(0, 0, 0, 0, 0, 0)

\* a frame that arrives whole with a checksum that differs in one bit
MismatchWire == Wire(3, ShortLen, ShortLen, 4, 305419896, 305419897)

\* frames that arrive cut short: in the header, the payload, the checksum
ShortWires ==
    { Wire(2, 0, 0, 0, 0, 0),
      Wire(3, ShortLen, ShortLen - 1, 0, 0, 0),
      Wire(3, ShortLen, ShortLen, 3, 0, 0) }

\* a frame that arrives whole with the checksum of its bytes
GoodWire == Wire(3, ShortLen, ShortLen, 4, 305419896, 305419896)

Wires == { ClosedWire, MismatchWire, GoodWire } \cup ShortWires

\* parse_packet raises on what arrives (peer closed, short read, checksum
\* mismatch): the loop's `except Exception`
ReadFailure(p, w) ==
    /\ running[p]
    /\ parse_packet(w) = "raise"
    /\ UNCHANGED << session, queue, link >>
    /\ reconnect_pool' = pool_put(reconnect_pool, names[p + 1], get_opponent_index(p))
    /\ running' = [running EXCEPT ![p] = FALSE]
    /\ out' = << >>
    /\ UNCHANGED << boards, placed_ships, game >>

\* ------------------------------------------------------------------------
\* lobby, reconnect branch: a client joins under a name of the pool
\* ------------------------------------------------------------------------
\* the connections something of the server refers to, the seats in `but`
\* left out
Referenced(but) ==
    { players[i] : i \in Seats \ but }
      \cup { spectators[k] : k \in 1 .. Len(spectators) }
      \cup { waiting[k] : k \in 1 .. Len(waiting) }
      \cup DOMAIN handlers
      \cup { handlers[h].conn : h \in DOMAIN handlers }

\* s.accept(): the connection the next accept returns when the seats in
\* `but` are about to be given up, NoConn when MaxConns are in use
NewConn(but) ==
    LET free == (0 .. MaxConns - 1) \ Referenced(but)
    IN IF free = {} THEN NoConn
       ELSE CHOOSE c \in free : \A d \in free : c <= d

\* the welcome a player handler sends when it starts
Welcome(to) == Frame(to, 0, PACKET_TYPE_CHAT, "Welcome to Battleship!", None)

\* the same with `del reconnect_pool[name]` left out
Rejoin_KeepsEntry(e) ==
    LET seat == 1 - e.opp_idx
    IN
    /\ accepting
    /\ e \in reconnect_pool
    /\ NewConn({seat}) # NoConn
    /\ reconnect_pool' = reconnect_pool
    /\ players' = [players EXCEPT ![seat] = NewConn({seat})]
    /\ running' = [running EXCEPT ![seat] = TRUE]
    /\ out' = << Welcome(NewConn({seat})) >>
    /\ UNCHANGED << boards, placed_ships, game >>
    /\ UNCHANGED << names, spectators, handlers, queue, link >>

\* lobby, reconnect branch: the seat opponent_idx ^ 1 gets the new
\* connection, the entry is deleted and a player handler is started
Rejoin(e) ==
    LET seat == 1 - e.opp_idx
    IN
    /\ accepting
    /\ e \in reconnect_pool
    /\ NewConn({seat}) # NoConn
    /\ reconnect_pool' = reconnect_pool \ { e }
    /\ players' = [players EXCEPT ![seat] = NewConn({seat})]
    /\ running' = [running EXCEPT ![seat] = TRUE]
    /\ out' = << Welcome(NewConn({seat})) >>
    /\ UNCHANGED << boards, placed_ships, game >>
    /\ UNCHANGED << names, spectators, handlers, queue, link >>

\* RECONNECT_TIMEOUT seconds pass after entry e was made: no code runs
Elapse(e) ==
    /\ e \in reconnect_pool
    /\ ~e.old
    /\ reconnect_pool' = (reconnect_pool \ { e }) \cup { [e EXCEPT !.old = TRUE] }
    /\ out' = << >>
    /\ UNCHANGED << boards, placed_ships, game, running, session, queue, link >>

\* ------------------------------------------------------------------------
\* handle_player, the passes of a spectator's handler
\* ------------------------------------------------------------------------
\* `x in list`
InList(list, x) == \E i \in 1 .. Len(list) : list[i] = x

\* list.remove(x): the list without its first x
RemoveFirst(list, x) ==
    LET idx == { i \in 1 .. Len(list) : list[i] = x }
        first == CHOOSE i \in idx : \A j \in idx : i <= j
    IN IF idx = {} THEN list
       ELSE [i \in 1 .. Len(list) - 1 |->
               IF i < first THEN list[i] ELSE list[i + 1]]

\* the socket handler h reads is open: a spectator's socket is in
\* game.spectators from its accept until a handler closes it
SpectatorOpen(h) == InList(spectators, handlers[h].conn)

\* the exit path of a spectator's handler: conn.close(),
\* game.spectators.remove(conn), game.names.remove(name); a remove of what
\* is not in the list raises and ends the thread there
SpectatorLeaves(h) ==
    /\ handlers' = [k \in DOMAIN handlers \ {h} |-> handlers[k]]
    /\ IF InList(spectators, handlers[h].conn)
       THEN /\ spectators' = RemoveFirst(spectators, handlers[h].conn)
            /\ names' = RemoveFirst(names, handlers[h].name)
       ELSE UNCHANGED << spectators, names >>

\* a pass of a spectator's handler that leaves every list as it is
SpectatorStays == UNCHANGED << names, spectators, handlers >>

SpectatorQuit(h) ==
    /\ h \in DOMAIN handlers
    /\ SpectatorOpen(h)
    /\ out' = << Frame(handlers[h].conn, ClientSeq, PACKET_TYPE_QUIT, "You quit.", None) >>
    /\ SpectatorLeaves(h)
    /\ UNCHANGED << boards, placed_ships, game, running, reconnect_pool,
                    players, queue, link >>

\* `if not is_spectator` around the whole SHOW branch: nothing is sent
SpectatorShow(h) ==
    /\ h \in DOMAIN handlers
    /\ SpectatorOpen(h)
    /\ out' = << >>
    /\ SpectatorStays
    /\ UNCHANGED << boards, placed_ships, game, running, reconnect_pool,
                    players, queue, link >>

SpectatorPlace(h) ==
    /\ h \in DOMAIN handlers
    /\ SpectatorOpen(h)
    /\ out' = << Frame(handlers[h].conn, ClientSeq, PACKET_TYPE_ERROR,
                       "Spectators cannot place ships.", None) >>
    /\ SpectatorStays
    /\ UNCHANGED << boards, placed_ships, game, running, reconnect_pool,
                    players, queue, link >>

SpectatorFire(h) ==
    /\ h \in DOMAIN handlers
    /\ SpectatorOpen(h)
    /\ out' = << Frame(handlers[h].conn, ClientSeq, PACKET_TYPE_ERROR,
                       "Spectators cannot fire.", None) >>
    /\ SpectatorStays
    /\ UNCHANGED << boards, placed_ships, game, running, reconnect_pool,
                    players, queue, link >>

\* a CHAT frame with a payload of len bytes; build_packet raising inside
\* broadcast_to_all ends the handler (no reconnect entry for a spectator)
SpectatorChat(h, len) ==
    /\ h \in DOMAIN handlers
    /\ SpectatorOpen(h)
    /\ IF PayloadTooLong(1 + StrLen(handlers[h].name) + 3 + len)
       THEN /\ out' = << >>
            /\ SpectatorLeaves(h)
       ELSE /\ out' = broadcast_to_all("chat", handlers[h].name)
            /\ SpectatorStays
    /\ UNCHANGED << boards, placed_ships, game, running, reconnect_pool,
                    players, queue, link >>

SpectatorUnknown(h, seq, type) ==
    /\ h \in DOMAIN handlers
    /\ SpectatorOpen(h)
    /\ type \notin KnownTypes
    /\ out' = << UnknownReply(handlers[h].conn, seq) >>
    /\ SpectatorStays
    /\ UNCHANGED << boards, placed_ships, game, running, reconnect_pool,
                    players, queue, link >>

\* `except socket.timeout` with `if not is_spectator`: nothing happens
SpectatorTimeout(h) ==
    /\ h \in DOMAIN handlers
    /\ SpectatorOpen(h)
    /\ out' = << >>
    /\ SpectatorStays
    /\ UNCHANGED << boards, placed_ships, game, running, reconnect_pool,
                    players, queue, link >>

\* parse_packet raises on what arrives, or the socket was closed by another
\* handler and the read raises: the loop's `except Exception`
SpectatorReadFailure(h, w) ==
    /\ h \in DOMAIN handlers
    /\ parse_packet(w) = "raise"
    /\ SpectatorOpen(h) \/ w = ClosedWire
    /\ out' = << >>
    /\ SpectatorLeaves(h)
    /\ UNCHANGED << boards, placed_ships, game, running, reconnect_pool,
                    players, queue, link >>

\* ------------------------------------------------------------------------
\* lobby: one pass through the accept loop
\* ------------------------------------------------------------------------
\* player_idx of the handler the Lobby starts for a spectator:
\* len(current_game.players)
SpectatorIdx == Cardinality(Seats)

\* lobby, spectator branch: the connection and the name are appended and a
\* handler is started, which binds game.spectators[player_idx - 2] and
\* game.names[player_idx]
Attach(name) ==
    LET c == NewConn({})
        list == Append(spectators, c)
        all == Append(names, name)
    IN
    /\ c # NoConn
    /\ spectators' = list
    /\ names' = all
    /\ handlers' = [k \in DOMAIN handlers \cup {c} |->
                       IF k = c
                       THEN [conn |-> list[SpectatorIdx - Cardinality(Seats) + 1],
                             name |-> all[SpectatorIdx + 1]]
                       ELSE handlers[k]]
    /\ out' = << >>
    /\ UNCHANGED << boards, placed_ships, game, running, reconnect_pool,
                    players, queue, link >>

\* byte length of f"You are Player {i+1} ({player_names[i]})"
RoleMsgLen(name) == 18 + StrLen(name) + 1

\* lobby, pairing branch: the connection is queued; with two in the queue a
\* GameState is created, each player is told its role, one handler is
\* started per seat and the queue is cleared.  build_packet raising on a
\* role message ends the accept loop where it stands.
Enqueue(name) ==
    LET c == NewConn({})
        q == Append(waiting, c)
        qn == Append(waiting_names, name)
        role(i) == Frame(q[i], 0, PACKET_TYPE_CHAT, "You are Player", i)
    IN
    /\ c # NoConn
    /\ UNCHANGED << boards, placed_ships, game, reconnect_pool, spectators, handlers, link >>
    /\ IF Len(q) # 2
       THEN /\ waiting' = q
            /\ waiting_names' = qn
            /\ out' = << >>
            /\ UNCHANGED << players, names, running, current_game, accepting >>
       ELSE /\ players' = [i \in Seats |-> q[i + 1]]
            /\ names' = qn
            /\ current_game' = TRUE
            /\ IF PayloadTooLong(RoleMsgLen(qn[1]))
               THEN /\ out' = << >>
                    /\ accepting' = FALSE
                    /\ waiting' = q
                    /\ waiting_names' = qn
                    /\ UNCHANGED running
               ELSE IF PayloadTooLong(RoleMsgLen(qn[2]))
               THEN /\ out' = << role(1) >>
                    /\ accepting' = FALSE
                    /\ waiting' = q
                    /\ waiting_names' = qn
                    /\ UNCHANGED running
               ELSE /\ out' = << role(1), role(2), Welcome(q[1]), Welcome(q[2]) >>
                    /\ running' = [i \in Seats |-> TRUE]
                    /\ waiting' = << >>
                    /\ waiting_names' = << >>
                    /\ UNCHANGED accepting

\* lobby: accept, receive_name, then the first branch that applies
Accept(name) ==
    /\ accepting
    /\ IF \E e \in reconnect_pool : e.name = name
       THEN Rejoin(CHOOSE e \in reconnect_pool : e.name = name)
       ELSE IF current_game
       THEN Attach(name)
       ELSE Enqueue(name)

\* ------------------------------------------------------------------------
\* The framing codec, byte for byte
\* ------------------------------------------------------------------------
Bytes == 0 .. 255

\* a ^ b on non-negative integers
Xor[a \in Nat, b \in Nat] ==
    IF a = 0 THEN b
    ELSE IF b = 0 THEN a
    ELSE ((a + b) % 2) + 2 * Xor[a \div 2, b \div 2]

\* a 32-bit word as its two 16-bit halves, the high one first
Word == (0 .. 65535) \X (0 .. 65535)

\* one step of the bitwise CRC-32 of zlib (reflected polynomial
\* 0xEDB88320) on the word crc
CrcShift[crc \in Word] ==
    IF crc[2] % 2 = 1
    THEN << Xor[crc[1] \div 2, 60856],
            Xor[(crc[2] \div 2) + (crc[1] % 2) * 32768, 33568] >>
    ELSE << crc[1] \div 2, (crc[2] \div 2) + (crc[1] % 2) * 32768 >>

\* a ^ b for bytes, and the table crc_table[n] of zlib: the eight shifts of n
XorByte == [a \in Bytes |-> [b \in Bytes |-> Xor[a, b]]]

CrcTable ==
    [n \in Bytes |->
        CrcShift[CrcShift[CrcShift[CrcShift[CrcShift[CrcShift[CrcShift[CrcShift[
            << 0, n >>]]]]]]]]]

\* v ^ w for halves of a word
XorWord(v, w) ==
    (XorByte[v \div 256][w \div 256] * 256) + XorByte[v % 256][w % 256]

\* crc = crc_table[(crc ^ b) & 0xff] ^ (crc >> 8)
CrcByte[crc \in Word, b \in Bytes] ==
    LET t == CrcTable[XorByte[crc[2] % 256][b]]
    IN << XorWord(t[1], crc[1] \div 256),
          XorWord(t[2], ((crc[1] % 256) * 256) + (crc[2] \div 256)) >>

Complement[crc \in Word] == << 65535 - crc[1], 65535 - crc[2] >>

\* the CRC-32 of data: its bytes i .. j are taken into crc by halves
CrcOf[data \in Seq(Bytes)] ==
    LET fold[crc \in Word, i \in Nat, j \in Nat] ==
            IF i > j THEN crc
            ELSE IF i = j THEN CrcByte[crc, data[i]]
            ELSE fold[fold[crc, i, (i + j) \div 2], ((i + j) \div 2) + 1, j]
    IN Complement[fold[<< 65535, 65535 >>, 1, Len(data)]]

\* zlib.crc32(data) & 0xFFFFFFFF
crc32(data) == CrcOf[data]

\* crc.to_bytes(4, 'big')
to_bytes(crc) ==
    << crc[1] \div 256, crc[1] % 256, crc[2] \div 256, crc[2] % 256 >>

\* int.from_bytes(crc_bytes, 'big') of up to four bytes
from_bytes(b) ==
    LET at(k) == IF Len(b) >= k THEN b[Len(b) - k + 1] ELSE 0
    IN << at(4) * 256 + at(3), at(2) * 256 + at(1) >>

\* a str is the sequence of its code points
CodePoints == 0 .. 1114111
IsSurrogate(cp) == cp \in 55296 .. 57343

\* the UTF-8 bytes of one character
Utf8[cp \in CodePoints] ==
    IF cp < 128 THEN << cp >>
    ELSE IF cp < 2048 THEN << 192 + (cp \div 64), 128 + (cp % 64) >>
    ELSE IF cp < 65536
    THEN << 224 + (cp \div 4096), 128 + ((cp \div 64) % 64), 128 + (cp % 64) >>
    ELSE << 240 + (cp \div 262144), 128 + ((cp \div 4096) % 64),
            128 + ((cp \div 64) % 64), 128 + (cp % 64) >>

\* str.encode() of the characters i .. j of text, by halves
EncodeOf[text \in Seq(CodePoints)] ==
    LET enc[i \in Nat, j \in Nat] ==
            IF i > j THEN << >>
            ELSE IF i = j THEN Utf8[text[i]]
            ELSE enc[i, (i + j) \div 2] \o enc[((i + j) \div 2) + 1, j]
    IN enc[1, Len(text)]

\* payload.encode(); a lone surrogate raises UnicodeEncodeError
EncodeRaises(text) == \E i \in 1 .. Len(text) : IsSurrogate(text[i])
encode(text) == EncodeOf[text]

\* how many continuation bytes the lead byte b asks for; -1: b cannot
\* start a character
Need(b) ==
    IF b < 128 THEN 0
    ELSE IF b \in 194 .. 223 THEN 1
    ELSE IF b \in 224 .. 239 THEN 2
    ELSE IF b \in 240 .. 244 THEN 3
    ELSE 0 - 1

\* the values byte number k after the lead byte b may have
Continuation(b, k) ==
    IF k # 1 THEN 128 .. 191
    ELSE IF b = 224 THEN 160 .. 191
    ELSE IF b = 237 THEN 128 .. 159
    ELSE IF b = 240 THEN 144 .. 191
    ELSE IF b = 244 THEN 128 .. 143
    ELSE 128 .. 191

\* how many bytes after data[i] continue the character data[i] starts
Followers(data, i) ==
    LET ok(k) == /\ k <= Need(data[i])
                 /\ i + k <= Len(data)
                 /\ data[i + k] \in Continuation(data[i], k)
    IN IF ~ok(1) THEN 0 ELSE IF ~ok(2) THEN 1 ELSE IF ~ok(3) THEN 2 ELSE 3

\* data[i] is one of the bytes that continue a character started before it
Follows(data, i) ==
    \E d \in 1 .. 3 : i - d >= 1 /\ Followers(data, i - d) >= d

\* the code point of the character of 1 + n bytes that starts at data[i]
Decoded(data, i, n) ==
    IF n = 0 THEN data[i]
    ELSE IF n = 1 THEN (data[i] - 192) * 64 + (data[i + 1] - 128)
    ELSE IF n = 2 THEN (data[i] - 224) * 4096 + (data[i + 1] - 128) * 64
                          + (data[i + 2] - 128)
    ELSE (data[i] - 240) * 262144 + (data[i + 1] - 128) * 4096
            + (data[i + 2] - 128) * 64 + (data[i + 3] - 128)

\* the bytes are well-formed UTF-8
WellFormed(data) ==
    \A i \in 1 .. Len(data) :
       \/ Follows(data, i)
       \/ Need(data[i]) >= 0 /\ Followers(data, i) = Need(data[i])

\* bytes.decode(errors='replace'): every ill-formed part becomes U+FFFD
DecodeOf[data \in Seq(Bytes)] ==
    LET dec[i \in Nat, j \in Nat] ==
            IF i > j THEN << >>
            ELSE IF i = j
            THEN IF Follows(data, i) THEN << >>
                 ELSE IF Need(data[i]) >= 0 /\ Followers(data, i) = Need(data[i])
                 THEN << Decoded(data, i, Need(data[i])) >>
                 ELSE << 65533 >>
            ELSE dec[i, (i + j) \div 2] \o dec[((i + j) \div 2) + 1, j]
    IN dec[1, Len(data)]

decode(data) == DecodeOf[data]

\* build_packet(seq, pkt_type, payload) raises: the payload cannot be
\* encoded, or its bytes are more than 255
BuildRaises(payload) ==
    EncodeRaises(payload) \/ PayloadTooLong(Len(encode(payload)))

\* header + crc.to_bytes(4, 'big') for the encoded payload `data`
FrameOf[seq \in Nat, pkt_type \in Nat, data \in Seq(Bytes)] ==
    LET header == << seq % 256, pkt_type % 256, Len(data) % 256 >> \o data
    IN header \o to_bytes(crc32(header))

\* the bytes build_packet returns when it does not raise
build_packet(seq, pkt_type, payload) == FrameOf[seq, pkt_type, encode(payload)]

Min(a, b) == IF a <= b THEN a ELSE b

\* bytes[from .. to], cut off where bytes ends: the slice bytes[from-1:to]
Slice(bytes, from, to) ==
    IF from > Min(to, Len(bytes)) THEN << >>
    ELSE SubSeq(bytes, from, Min(to, Len(bytes)))

\* what the reads of the server's parse_packet get from a socket on which
\* `bytes` arrive, the first `cut` of them before the first recv and the
\* others while a later recv waits: recv(3) and recv(4) return what is
\* there, the payload loop reads on until it has `length` bytes
WireOf(bytes, cut) ==
    LET header == Min(3, Min(cut, Len(bytes)))
        length == IF header = 3 THEN bytes[3] ELSE 0
        after == 3 + length
        payload == IF header = 3 THEN Min(length, Len(bytes) - 3) ELSE 0
        crc_bytes == IF header < 3 \/ payload < length THEN 0
                     ELSE IF cut > after THEN Min(4, cut - after)
                     ELSE Min(4, Len(bytes) - after)
    IN IF crc_bytes = 4
       THEN Wire(header, length, payload, crc_bytes,
                 from_bytes(Slice(bytes, after + 1, after + 4)),
                 crc32(Slice(bytes, 1, after)))
       ELSE Wire(header, length, payload, crc_bytes, << 0, 0 >>, << 0, 0 >>)

\* the ValueError parse_packet raises on what arrives
parse_error(w) ==
    IF w.header < 3 THEN "Incomplete header"
    ELSE IF w.payload < w.length THEN "Incomplete payload"
    ELSE IF w.crc_bytes < 4 THEN "Incomplete CRC"
    ELSE "Checksum mismatch"

\* a recv of parse_packet finds nothing to return: it waits, and with the
\* peer's end open it raises socket.timeout
Starved(bytes, w) ==
    \/ Len(bytes) = 0
    \/ w.header = 3 /\ w.payload < w.length
    \/ w.header = 3 /\ w.payload = w.length /\ w.crc_bytes = 0

\* what a decode gives: the triple, or how it failed
Result(by, kind, seq, type, payload) ==
    [by |-> by, kind |-> kind, seq |-> seq, type |-> type, payload |-> payload]

Failure(by, kind) == Result(by, kind, 0, 0, << >>)

\* the server's parse_packet(sock), the peer's end closed after `bytes` or
\* left open
server_parse_packet(bytes, cut, closed) ==
    LET w == WireOf(bytes, cut)
        payload == Slice(bytes, 4, 3 + w.length)
    IN IF Starved(bytes, w) /\ ~closed THEN Failure("server", "socket.timeout")
       ELSE IF parse_packet(w) = "raise" THEN Failure("server", parse_error(w))
       ELSE IF ~WellFormed(payload) THEN Failure("server", "UnicodeDecodeError")
       ELSE Result("server", "frame", bytes[1], bytes[2], decode(payload))

\* the client's parse_packet(data)
client_parse_packet(data) ==
    LET length == data[3]
        payload == Slice(data, 4, 3 + length)
        crc_bytes == Slice(data, 4 + length, 7 + length)
    IN IF Len(data) < 7 THEN Failure("client", "None")
       ELSE IF Len(payload) < length THEN Failure("client", "None")
       ELSE IF from_bytes(crc_bytes) # crc32(Slice(data, 1, 3 + length))
       THEN Failure("client", "CRC mismatch")
       ELSE Result("client", "frame", data[1], data[2], decode(payload))

\* ------------------------------------------------------------------------
\* Chunked transfer of a board
\* ------------------------------------------------------------------------
\* 'MORE\n' and 'LAST\n'
MORE == << 77, 79, 82, 69, 10 >>
LAST == << 76, 65, 83, 84, 10 >>

\* prefix = 'LAST\n' if is_last else 'MORE\n'
ChunkPrefix_More(is_last) == MORE

ChunkPrefix(is_last) == IF is_last THEN LAST ELSE MORE

\* chunks[i - 1] = board_str[(i - 1) * max_payload : i * max_payload]
Chunk(board_str, i) ==
    Slice(board_str, ((i - 1) * (255 - 5)) + 1, i * (255 - 5))

\* the payload of frame number i of send_board_in_chunks
ChunkPayload(board_str, i) ==
    ChunkPrefix(i = ChunkCount(Len(board_str))) \o Chunk(board_str, i)

\* the frames send_board_in_chunks sends one after the other: all of them,
\* or those before the first one build_packet raises on
ChunkFrames[seq \in Nat, board_str \in Seq(CodePoints)] ==
    LET sent[i \in Nat] ==
            IF i > ChunkCount(Len(board_str)) THEN << >>
            ELSE IF BuildRaises(ChunkPayload(board_str, i)) THEN << >>
            ELSE << build_packet(seq, PACKET_TYPE_SHOW,
                                 ChunkPayload(board_str, i)) >> \o sent[i + 1]
    IN sent[1]

\* the frames of a list as one run of bytes
Flatten[frames \in Seq(Seq(Bytes))] ==
    IF frames = << >> THEN << >> ELSE Head(frames) \o Flatten[Tail(frames)]

\* what the handler's SHOW branch sends for the rendering `view`: chunks
\* when its bytes are more than 255, one frame otherwise
ShowBytes[seq \in Nat, view \in Seq(CodePoints)] ==
    IF PayloadTooLong(Len(encode(view)))
    THEN Flatten[ChunkFrames[seq, view]]
    ELSE build_packet(seq, PACKET_TYPE_SHOW, view)

\* payload.startswith(prefix) and payload[5:]
startswith(payload, prefix) ==
    Len(payload) >= Len(prefix) /\ SubSeq(payload, 1, Len(prefix)) = prefix

Strip(payload) == Slice(payload, 6, Len(payload))

\* the local state of receive_messages
ClientStates ==
    [buffer : Seq(Bytes), board_buffer : Seq(CodePoints),
     awaiting_board : BOOLEAN, printed : Seq(Seq(CodePoints))]

Packets ==
    [by : STRING, kind : STRING, seq : Bytes, type : Bytes,
     payload : Seq(CodePoints)]

\* receive_messages has parsed one packet: an invalid one is skipped; a
\* SHOW packet is a chunk of a board, the last chunk of one, or a whole
\* board; packets of the other types print a line and leave the board
\* alone (QUIT, which ends the client, is not among the frames a SHOW is
\* answered with)
Dispatch[st \in ClientStates, pkt \in Packets] ==
    IF pkt.kind # "frame" THEN st
    ELSE IF pkt.type # PACKET_TYPE_SHOW THEN st
    ELSE IF startswith(pkt.payload, MORE)
    THEN [st EXCEPT
            !.board_buffer = (IF st.awaiting_board THEN @ ELSE << >>)
                                \o Strip(pkt.payload),
            !.awaiting_board = TRUE]
    ELSE IF startswith(pkt.payload, LAST)
    THEN [st EXCEPT
            !.printed = Append(@, (IF st.awaiting_board THEN st.board_buffer
                                   ELSE << >>) \o Strip(pkt.payload)),
            !.board_buffer = << >>,
            !.awaiting_board = FALSE]
    ELSE [st EXCEPT
            !.printed = Append(@, pkt.payload),
            !.board_buffer = << >>,
            !.awaiting_board = FALSE]

\* the inner loop of receive_messages: while the buffer holds a whole
\* packet, take it out of the buffer and parse it
Drain[st \in ClientStates] ==
    IF Len(st.buffer) < 7 THEN st
    ELSE IF Len(st.buffer) < 3 + st.buffer[3] + 4 THEN st
    ELSE Drain[Dispatch[
            [st EXCEPT !.buffer = Slice(@, 3 + st.buffer[3] + 4 + 1, Len(@))],
            client_parse_packet(SubSeq(st.buffer, 1, 3 + st.buffer[3] + 4))]]

\* ------------------------------------------------------------------------
\* Specification
\* ------------------------------------------------------------------------
\* byte lengths of the CHAT payloads clients send
ChatLens == {ShortLen, MaxPayload}

\* the sequence numbers of the frames of unknown type clients send
Seqs == {ClientSeq, MaxSeq}

\* the types of those frames: JOIN after the first frame, and a byte that
\* is no packet type
UnknownTypes == {PACKET_TYPE_JOIN, PACKET_TYPE_PLACE + 1}

PoolEntries ==
    { [name |-> names[i + 1], opp_idx |-> 1 - i, old |-> FALSE] : i \in Seats }

\* a match: scripted placement, the whole handler, handler exits, rejoin
Next ==
    \/ \E p \in Seats : \E cmd \in PlaceInputs(p) : Place(p, cmd)
    \/ \E p \in Seats : \E coord \in FireInputs(p) : Fire(p, coord)
    \/ \E p \in Seats : Show(p)
    \/ \E p \in Seats : \E len \in ChatLens : Chat(p, len)
    \/ \E p \in Seats : \E seq \in Seqs : \E type \in UnknownTypes :
          Unknown(p, seq, type)
    \/ \E p \in Seats : Quit(p)
    \/ \E p \in Seats : Timeout(p)
    \/ \E p \in Seats : \E w \in Wires : ReadFailure(p, w)
    \/ \E e \in PoolEntries : Rejoin(e)

Spec == Init /\ [][Next]_vars

\* the placement phase in depth: every PLACE probe, FIRE limited to the
\* probes, timeouts, both connections staying up
NextPlace ==
    \/ \E p \in Seats : \E cmd \in PlaceProbeInputs(p) : Place(p, cmd)
    \/ \E p \in Seats : \E coord \in FewFireProbes : Fire(p, coord)
    \/ \E p \in Seats : Timeout(p)

SpecPlace == Init /\ [][NextPlace]_vars

\* the state when the Lobby starts to accept: no GameState, nothing queued
NoSession ==
    /\ hidden_grid = [i \in Seats |-> EmptyGrid]
    /\ display_grid = [i \in Seats |-> EmptyGrid]
    /\ board_placed_ships = [i \in Seats |-> << >>]
    /\ placed_ships = [i \in Seats |-> {}]
    /\ current_turn = 0
    /\ placement_phase = TRUE
    /\ placement_complete = [i \in Seats |-> FALSE]
    /\ running = [i \in Seats |-> FALSE]
    /\ reconnect_pool = {}
    /\ out = << >>
    /\ players = [i \in Seats |-> NoConn]
    /\ names = << >>
    /\ spectators = << >>
    /\ handlers = << >>
    /\ waiting = << >>
    /\ waiting_names = << >>
    /\ current_game = FALSE
    /\ accepting = TRUE

InitLobby == NoSession /\ LinkIdle

\* the name the next client that is not attached joins with: the first of
\* Clients that is in no list of names
NextClient ==
    LET free == { i \in 1 .. Len(Clients) :
                    ~InList(names, Clients[i]) /\ ~InList(waiting_names, Clients[i]) }
    IN IF free = {} THEN {}
       ELSE { Clients[CHOOSE i \in free : \A j \in free : i <= j] }

\* the names of the JOIN frames the Lobby may receive next: the next
\* client's, a name of the reconnect pool, and before the Session exists a
\* name of LongLen bytes
JoinInputs ==
    NextClient \cup { e.name : e \in reconnect_pool }
      \cup (IF current_game THEN {} ELSE { LongName })

\* seat p's opponent has left: its handler has ended
LeftAlone(p) == ~running[get_opponent_index(p)]

\* the Lobby and the spectators of its Session: clients join, the players
\* follow the placement script, fire the probes, chat, quit and lose their
\* connections, a player left alone stays idle for the timeout, spectators
\* send every type of frame
NextLobby ==
    \/ \E name \in JoinInputs : Accept(name)
    \/ \E p \in Seats : Place(p, PlaceScript[NextScript(p)])
    \/ \E p \in Seats : \E coord \in FewFireProbes : Fire(p, coord)
    \/ \E p \in Seats : Chat(p, ShortLen)
    \/ \E p \in Seats : ReadFailure(p, ClosedWire)
    \/ \E p \in Seats : Quit(p)
    \/ \E p \in Seats : LeftAlone(p) /\ Timeout(p)
    \/ \E h \in DOMAIN handlers : SpectatorQuit(h)
    \/ \E h \in DOMAIN handlers : SpectatorShow(h)
    \/ \E h \in DOMAIN handlers : SpectatorPlace(h)
    \/ \E h \in DOMAIN handlers : SpectatorFire(h)
    \/ \E h \in DOMAIN handlers : \E len \in ChatLens : SpectatorChat(h, len)
    \/ \E h \in DOMAIN handlers : \E seq \in Seqs : \E type \in UnknownTypes :
          SpectatorUnknown(h, seq, type)
    \/ \E h \in DOMAIN handlers : SpectatorTimeout(h)
    \/ \E h \in DOMAIN handlers : \E w \in Wires : SpectatorReadFailure(h, w)

SpecLobby == InitLobby /\ [][NextLobby]_vars

\* the names of the JOIN frames the Lobby of a running Session may receive:
\* the next client's and the names of the reconnect pool
RejoinInputs == NextClient \cup { e.name : e \in reconnect_pool }

\* disconnects and rejoins over time: the players follow the placement
\* script, fire the probes, quit and lose their connections, time passes,
\* clients join under old and new names
NextReconnect ==
    \/ \E name \in RejoinInputs : Accept(name)
    \/ \E e \in reconnect_pool : Elapse(e)
    \/ \E p \in Seats : Place(p, PlaceScript[NextScript(p)])
    \/ \E p \in Seats : \E coord \in FewFireProbes : Fire(p, coord)
    \/ \E p \in Seats : Quit(p)
    \/ \E p \in Seats : ReadFailure(p, ClosedWire)

SpecReconnect == Init /\ [][NextReconnect]_vars

\* ------------------------------------------------------------------------
\* The codec on its own: a sender encodes a frame, one bit of it may flip
\* on the way, a receiver decodes it
\* ------------------------------------------------------------------------
\* what the codec is asked to send: the payloads of up to PayloadLen
\* characters of one and of two bytes, a payload that holds a whole frame,
\* and payloads of MaxPayload and of MaxPayload + 1 bytes
Texts(n) == UNION { [1 .. k -> {65, 233}] : k \in 0 .. n }

FrameInside == << 41, 123, 47, 28, 6 >>

LongTexts ==
    { [i \in 1 .. MaxPayload |-> 65],
      [i \in 1 .. MaxPayload + 1 |-> 65],
      [i \in 1 .. (MaxPayload \div 2) + 1 |-> IF i = 1 THEN 65 ELSE 233],
      [i \in 1 .. (MaxPayload \div 2) + 1 |-> 233] }

CodecInputs ==
    { [seq |-> s, type |-> t, payload |-> x] :
         s \in {0, MaxSeq}, t \in {PACKET_TYPE_FIRE, PACKET_TYPE_ERROR},
         x \in Texts(PayloadLen) \cup { FrameInside } }
      \cup { [seq |-> MaxSeq, type |-> PACKET_TYPE_CHAT, payload |-> x] : x \in LongTexts }

NoResult == Failure("nobody", "none")

InitCodec ==
    /\ NoSession
    /\ outgoing \in CodecInputs
    /\ stream = << >>
    /\ flips = 0
    /\ received = NoResult
    /\ ClientIdle
    /\ ThreadsIdle

Still ==
    UNCHANGED << boards, placed_ships, game, running, reconnect_pool, out,
                 session, queue, threads >>

\* the sender calls build_packet and hands the frame to the connection
Encode ==
    /\ stream = << >>
    /\ received = NoResult
    /\ IF BuildRaises(outgoing.payload)
       THEN /\ received' = Failure("sender", "Payload too long for packet format")
            /\ UNCHANGED stream
       ELSE /\ stream' = build_packet(outgoing.seq, outgoing.type, outgoing.payload)
            /\ UNCHANGED received
    /\ UNCHANGED << outgoing, flips, client >>
    /\ Still

\* bit k of the frame flips on the way
FlipBit(k) ==
    /\ stream # << >>
    /\ Len(stream) <= FlipLen
    /\ flips = 0
    /\ received = NoResult
    /\ k \in 0 .. 8 * Len(stream) - 1
    /\ stream' = [stream EXCEPT ![(k \div 8) + 1] = Xor[@, 2 ^ (k % 8)]]
    /\ flips' = 1
    /\ UNCHANGED << outgoing, received, client >>
    /\ Still

\* where the first segment of the frame may end
Cuts == { 1, 2, 3, Len(stream) - 3, Len(stream) - 1, Len(stream) }

\* the server decodes what arrives
ServerDecode(cut, closed) ==
    /\ stream # << >>
    /\ received = NoResult
    /\ cut \in 1 .. Len(stream)
    /\ flips = 0 \/ cut = Len(stream)
    /\ received' = server_parse_packet(stream, cut, closed)
    /\ UNCHANGED << outgoing, stream, flips, client >>
    /\ Still

\* the client decodes the frame
ClientDecode ==
    /\ stream # << >>
    /\ received = NoResult
    /\ received' = client_parse_packet(stream)
    /\ UNCHANGED << outgoing, stream, flips, client >>
    /\ Still

NextCodec ==
    \/ Encode
    \/ \E k \in 0 .. 8 * FlipLen - 1 : FlipBit(k)
    \/ \E cut \in Cuts : \E closed \in BOOLEAN : ServerDecode(cut, closed)
    \/ ClientDecode

SpecCodec == InitCodec /\ [][NextCodec]_vars

\* ------------------------------------------------------------------------
\* SHOW answers on one connection: the handler sends boards, the client's
\* receive_messages takes what arrives
\* ------------------------------------------------------------------------
\* the characters of a rendering: '.', 'o', 'X', ' ', '\n', 'A', '1'
BoardGlyphs == << 46, 111, 88, 32, 10, 65, 49 >>

\* renderings of the lengths BoardLens, Variants of each
BoardLens == { 256, RenderLen, 2 * (255 - 5), 2 * (255 - 5) + 1, 600 }

BoardStrings ==
    { [i \in 1 .. n |-> BoardGlyphs[((i * v) % Len(BoardGlyphs)) + 1]] :
         n \in BoardLens, v \in 1 .. Variants }

InitChunk ==
    /\ NoSession
    /\ outgoing = << >>
    /\ stream = << >>
    /\ flips = 0
    /\ received = NoResult
    /\ ClientIdle
    /\ ThreadsIdle

\* the handler answers a SHOW with the rendering view; the renderings of
\* one board are all of one length
SendBoard(view) ==
    /\ Len(outgoing) < MaxBoards
    /\ outgoing # << >> => Len(view) = Len(outgoing[1])
    /\ outgoing' = Append(outgoing, view)
    /\ stream' = stream \o ShowBytes[Len(outgoing) % (MaxSeq + 1), view]
    /\ UNCHANGED << flips, received, client >>
    /\ Still

\* data = sock.recv(1024) returns n bytes, and the inner loop takes the
\* packets the buffer then holds
Recv(n) ==
    /\ stream # << >>
    /\ n \in 1 .. Min(1024, Len(stream))
    /\ \E st \in { Drain[[buffer |-> buffer \o SubSeq(stream, 1, n),
                          board_buffer |-> board_buffer,
                          awaiting_board |-> awaiting_board,
                          printed |-> printed]] } :
          /\ buffer' = st.buffer
          /\ board_buffer' = st.board_buffer
          /\ awaiting_board' = st.awaiting_board
          /\ printed' = st.printed
    /\ stream' = Slice(stream, n + 1, Len(stream))
    /\ UNCHANGED << outgoing, flips, received >>
    /\ Still

\* how many bytes a recv returns: a part of a frame, or all there is
Arrivals == { Segment, Min(1024, Len(stream)) }

NextChunk ==
    \/ \E view \in BoardStrings : SendBoard(view)
    \/ \E n \in Arrivals : Recv(n)

SpecChunk == InitChunk /\ [][NextChunk]_vars

\* ------------------------------------------------------------------------
\* SHOW answers on a connection that may damage a chunk or break
\* ------------------------------------------------------------------------
\* the bytes with the lowest bit of byte k flipped
Damage(bytes, k) == [bytes EXCEPT ![k] = Xor[@, 1]]

\* where the first body byte of frame i lies in the frames of a board
BodyStart[frames \in Seq(Seq(Bytes)), i \in Nat] ==
    Len(Flatten[SubSeq(frames, 1, i - 1)]) + 3 + Len(MORE) + 1

\* the handler answers a SHOW with the rendering view, and one bit of the
\* body of chunk i is flipped on the way
SendDamaged(view, i) ==
    /\ Len(outgoing) < MaxBoards
    /\ outgoing # << >> => Len(view) = Len(outgoing[1])
    /\ flips = 0
    /\ PayloadTooLong(Len(encode(view)))
    /\ i \in 1 .. ChunkCount(Len(view))
    /\ outgoing' = Append(outgoing, view)
    /\ stream' = stream \o Damage(ShowBytes[Len(outgoing) % (MaxSeq + 1), view],
                                  BodyStart[ChunkFrames[Len(outgoing) % (MaxSeq + 1), view], i])
    /\ flips' = 1
    /\ UNCHANGED << received, client >>
    /\ Still

\* the connection breaks: recv returns b'' or raises, receive_messages
\* leaves its loop and the client exits; what a later connection receives
\* goes to a new receive_messages
ConnectionLost ==
    /\ stream # << >> \/ awaiting_board
    /\ stream' = << >>
    /\ buffer' = << >>
    /\ board_buffer' = << >>
    /\ awaiting_board' = FALSE
    /\ UNCHANGED << outgoing, flips, received, printed >>
    /\ Still

NextLossy ==
    \/ \E view \in BoardStrings : SendBoard(view)
    \/ \E view \in BoardStrings : \E i \in 1 .. 3 : SendDamaged(view, i)
    \/ \E n \in Arrivals : Recv(n)
    \/ ConnectionLost

SpecLossy == InitChunk /\ [][NextLossy]_vars

\* ------------------------------------------------------------------------
\* The two handlers of a match as threads: every statement that reads or
\* writes what both handlers share is a step of its own
\* ------------------------------------------------------------------------
\* `with self.lock:` goes on when no handler holds the lock
with_lock_Skipped(holders) == TRUE

with_lock(holders) == holders = {}

\* leaving the with block releases the lock
unlock_Kept(holders, p) == holders

unlock(holders, p) == holders \ {p}

\* the handlers that are on their way to a call of switch_turn
InFlight ==
    Cardinality({ q \in Seats :
                    pc[q] \in {"resolve", "notify", "acquire", "load", "store"} })

\* a further FIRE or timeout may be taken up
Budget == toggles + InFlight < MaxToggles

Go(p, to) == pc' = [pc EXCEPT ![p] = to]

Forget(p) == local' = [local EXCEPT ![p] = Idle]

\* lines 159-173: the next PLACE of the script arrives and place_ship runs
PlaceShip(p) ==
    LET cmd == PlaceScript[NextScript(p)]
        message == place_ship_result(hidden_grid[p], placed_ships[p], cmd)
        row == ParseRow(cmd.coord)
        col == ParseCol(cmd.coord)
        size == ship_size_of(cmd.ship_name)
        orientation == ParseOrientation(cmd.orientation)
        placed == placed_ships[p] \cup { cmd.ship_name }
    IN
    /\ pc[p] = "read"
    /\ running[p]
    /\ cmd.ship_name \notin placed_ships[p]
    /\ UNCHANGED << session, queue, outgoing, stream, flips, received, client,
                    local, lock, toggles, starts >>
    /\ UNCHANGED << display_grid, game, running, reconnect_pool >>
    /\ IF PlaceRefused
       THEN /\ out' = << Frame(players[p], ClientSeq, PACKET_TYPE_ERROR,
                               "Placement phase is over.", None) >>
            /\ UNCHANGED << hidden_grid, board_placed_ships, placed_ships, pc >>
       ELSE IF message # "Placed"
       THEN /\ out' = << Frame(players[p], ClientSeq, PACKET_TYPE_ERROR, message, None) >>
            /\ UNCHANGED << hidden_grid, board_placed_ships, placed_ships, pc >>
       ELSE /\ hidden_grid' = [hidden_grid EXCEPT ![p] =
                    do_place_ship(@, row, col, size, orientation)]
            /\ board_placed_ships' = [board_placed_ships EXCEPT ![p] =
                    Append(@, [name |-> cmd.ship_name,
                               positions |-> RunCells(row, col, size, orientation)])]
            /\ placed_ships' = [placed_ships EXCEPT ![p] = placed]
            /\ out' = << Frame(players[p], ClientSeq, PACKET_TYPE_CHAT, "Placed", None) >>
            /\ Go(p, IF is_complete(placed) THEN "mark" ELSE "read")

\* lines 175-176: game.placement_complete[player_idx] = True, and the
\* player is told
MarkReady(p) ==
    /\ pc[p] = "mark"
    /\ placement_complete' = [placement_complete EXCEPT ![p] = TRUE]
    /\ out' = << Frame(players[p], ClientSeq, PACKET_TYPE_CHAT,
                       "All ships placed! Waiting for opponent...", None) >>
    /\ Go(p, "check")
    /\ UNCHANGED << boards, placed_ships, current_turn, placement_phase, running,
                    reconnect_pool, session, queue, outgoing, stream, flips,
                    received, client, local, lock, toggles, starts >>

\* line 177: if game.check_placement_complete()
CheckReady(p) ==
    /\ pc[p] = "check"
    /\ Go(p, IF check_placement_complete(placement_complete) THEN "start" ELSE "read")
    /\ out' = << >>
    /\ UNCHANGED << boards, placed_ships, game, running, reconnect_pool, session,
                    queue, outgoing, stream, flips, received, client, local,
                    lock, toggles, starts >>

\* line 178: game.start_game()
StartGame(p) ==
    /\ pc[p] = "start"
    /\ placement_phase' = FALSE
    /\ out' = broadcast_to_all("Game started! Fire away.", None)
    /\ starts' = starts + 1
    /\ Go(p, "read")
    /\ UNCHANGED << boards, placed_ships, current_turn, placement_complete,
                    running, reconnect_pool, session, queue, outgoing, stream,
                    flips, received, client, local, lock, toggles >>

\* line 140 returns a FIRE frame
RecvFire(p, coord) ==
    /\ pc[p] = "read"
    /\ running[p]
    /\ Budget
    /\ Go(p, "resolve")
    /\ local' = [local EXCEPT ![p] = [Idle EXCEPT !.task = "fire", !.coord = coord]]
    /\ out' = << >>
    /\ UNCHANGED << boards, placed_ships, game, running, reconnect_pool, session,
                    queue, outgoing, stream, flips, received, client, lock,
                    toggles, starts >>

\* lines 193-200: the phase test, the coordinate and fire_at on the
\* opponent's board
Resolve(p) ==
    LET opp == get_opponent_index(p)
        coord == local[p].coord
        row == ParseRow(coord)
        col == ParseCol(coord)
        result == FireOutcome(p, coord)
        sunk == IF result = "hit"
                THEN check_sunk(board_placed_ships[opp], row, col) ELSE None
    IN
    /\ pc[p] = "resolve"
    /\ UNCHANGED << placed_ships, game, running, reconnect_pool, session, queue,
                    outgoing, stream, flips, received, client, lock, toggles,
                    starts >>
    /\ IF FireRefused
       THEN /\ out' = << Frame(players[p], ClientSeq, PACKET_TYPE_ERROR,
                               "Game hasn't started yet. Place your ships first.", None) >>
            /\ Go(p, "read")
            /\ Forget(p)
            /\ UNCHANGED boards
       ELSE IF result = "raise"
       THEN /\ out' = << Frame(players[p], ClientSeq, PACKET_TYPE_ERROR,
                               "Invalid FIRE format.", None) >>
            /\ Go(p, "read")
            /\ Forget(p)
            /\ UNCHANGED boards
       ELSE /\ hidden_grid' = [hidden_grid EXCEPT ![opp] = fire_at_grid(@, result, row, col)]
            /\ display_grid' = [display_grid EXCEPT ![opp] = fire_at_grid(@, result, row, col)]
            /\ board_placed_ships' = [board_placed_ships EXCEPT ![opp] =
                    IF result = "hit" THEN mark_hit(@, row, col) ELSE @]
            /\ local' = [local EXCEPT ![p].result = result, ![p].sunk = sunk,
                                      ![p].turn = current_turn]
            /\ out' = << >>
            /\ Go(p, "notify")

\* lines 203-213: the sends of the result and the test for a win
Notify(p) ==
    LET opp == get_opponent_index(p)
        coord == local[p].coord
        result == local[p].result
        sunk == local[p].sunk
        msg == FireMsg(result, sunk)
        invalid == Frame(players[p], ClientSeq, PACKET_TYPE_ERROR, "Invalid FIRE format.", None)
        sent == << Frame(players[p], ClientSeq, PACKET_TYPE_FIRE, "RESULT", msg) >>
        told == sent \o << Frame(players[opp], ClientSeq, PACKET_TYPE_FIRE, "fired at", msg) >>
                     \o broadcast_to_all("fired at", msg)
    IN
    /\ pc[p] = "notify"
    /\ UNCHANGED << boards, placed_ships, game, reconnect_pool, session, queue,
                    outgoing, stream, flips, received, client, lock, toggles,
                    starts >>
    /\ IF PayloadTooLong(FiredMsgLen(p, coord, result, sunk)) \/ SendRaises(opp)
       THEN /\ out' = sent \o << invalid >>
            /\ Go(p, "read")
            /\ Forget(p)
            /\ UNCHANGED running
       ELSE IF IsWin(result, board_placed_ships[opp])
       THEN /\ out' = told \o << Frame(players[p], ClientSeq, PACKET_TYPE_CHAT, "You win!", None),
                                 Frame(players[opp], ClientSeq, PACKET_TYPE_CHAT, "You lose!", None) >>
            /\ running' = [running EXCEPT ![p] = FALSE]
            /\ Go(p, "done")
            /\ Forget(p)
       ELSE /\ out' = told
            /\ Go(p, "acquire")
            /\ UNCHANGED << running, local >>

\* lines 220-224: parse_packet raises socket.timeout, the two sends
RecvTimeout(p) ==
    LET opp == get_opponent_index(p)
        forfeit == Frame(players[p], 0, PACKET_TYPE_ERROR, "Timeout. You forfeit your turn.", None)
    IN
    /\ pc[p] = "read"
    /\ running[p]
    /\ Budget
    /\ UNCHANGED << boards, placed_ships, game, reconnect_pool, session, queue,
                    outgoing, stream, flips, received, client, lock, toggles,
                    starts >>
    /\ IF SendRaises(opp)
       THEN /\ out' = << forfeit >>
            /\ running' = [running EXCEPT ![p] = FALSE]
            /\ Go(p, "done")
            /\ UNCHANGED local
       ELSE /\ out' = << forfeit, Frame(players[opp], 0, PACKET_TYPE_CHAT, "timed out.", names[p + 1]) >>
            /\ local' = [local EXCEPT ![p] = [Idle EXCEPT !.task = "timeout"]]
            /\ Go(p, "acquire")
            /\ UNCHANGED running

Quiet(p) ==
    /\ out' = << >>
    /\ UNCHANGED << boards, placed_ships, placement_phase, placement_complete,
                    running, reconnect_pool, session, queue, outgoing, stream,
                    flips, received, client, starts >>

\* line 88: with self.lock
Acquire(p) ==
    /\ pc[p] = "acquire"
    /\ with_lock(lock)
    /\ lock' = lock \cup {p}
    /\ Go(p, "load")
    /\ Quiet(p)
    /\ UNCHANGED << current_turn, local, toggles >>

\* line 89, right-hand side: 1 - self.current_turn
Load(p) ==
    /\ pc[p] = "load"
    /\ local' = [local EXCEPT ![p].value = switch_turn(current_turn)]
    /\ Go(p, "store")
    /\ Quiet(p)
    /\ UNCHANGED << current_turn, lock, toggles >>

\* line 89, the assignment to self.current_turn
Store(p) ==
    /\ pc[p] = "store"
    /\ current_turn' = local[p].value
    /\ toggles' = toggles + 1
    /\ Go(p, "release")
    /\ Quiet(p)
    /\ UNCHANGED << local, lock >>

\* the end of the with block: the lock is released and the handler goes
\* back to parse_packet
Release(p) ==
    /\ pc[p] = "release"
    /\ lock' = unlock(lock, p)
    /\ Go(p, "read")
    /\ Forget(p)
    /\ Quiet(p)
    /\ UNCHANGED << current_turn, toggles >>

NextThreads ==
    \/ \E p \in Seats : PlaceShip(p)
    \/ \E p \in Seats : MarkReady(p)
    \/ \E p \in Seats : CheckReady(p)
    \/ \E p \in Seats : StartGame(p)
    \/ \E p \in Seats : \E coord \in FewFireProbes : RecvFire(p, coord)
    \/ \E p \in Seats : Resolve(p)
    \/ \E p \in Seats : Notify(p)
    \/ \E p \in Seats : RecvTimeout(p)
    \/ \E p \in Seats : Acquire(p)
    \/ \E p \in Seats : Load(p)
    \/ \E p \in Seats : Store(p)
    \/ \E p \in Seats : Release(p)

SpecThreads == Init /\ [][NextThreads]_vars

\* the scheduler lets a handler that can run a statement run it
SpecThreadsFair ==
    /\ SpecThreads
    /\ \A p \in Seats :
          /\ WF_vars(Acquire(p))
          /\ WF_vars(Load(p))
          /\ WF_vars(Store(p))
          /\ WF_vars(Release(p))

TypeOK ==
    /\ current_turn \in Seats
    /\ placement_phase \in BOOLEAN
    /\ running \in [Seats -> BOOLEAN]
    /\ \A i \in Seats : \A c \in Cells :
          /\ hidden_grid[i][c] \in {".", "S", "X", "o"}
          /\ display_grid[i][c] \in {".", "X", "o"}

\* ------------------------------------------------------------------------
\* Properties
\* ------------------------------------------------------------------------
\* the match is being played: the placement phase is over
InProgress == ~placement_phase

\* the pass answered seat p with exactly one frame, an ERROR frame
AnsweredError(p) ==
    /\ Len(out') = 1
    /\ out'[1].to = players[p]
    /\ out'[1].type = PACKET_TYPE_ERROR

\* C1: while the match is in progress, a FIRE of the seat that is not
\* current_turn is answered with an ERROR frame, is not resolved against a
\* board and leaves current_turn unchanged.
C1_NotYourTurn ==
    [][\A p \in Seats : \A coord \in FireInputs(p) :
          (InProgress /\ p # current_turn /\ Fire(p, coord))
            => (AnsweredError(p) /\ UNCHANGED << boards, current_turn >>)]_vars

\* C2: current_turn changes only in a step that is an inactivity timeout or
\* a FIRE resolving to a miss or to a hit (CHAT, SHOW, PLACE, unknown frames
\* and FIREs that resolve to nothing else never change it).
C2_TurnChangesOnly ==
    [][current_turn' # current_turn =>
          \E p \in Seats :
             \/ Timeout(p)
             \/ \E coord \in FireInputs(p) :
                   /\ Fire(p, coord)
                   /\ InProgress
                   /\ FireOutcome(p, coord) \in {"hit", "miss"}]_vars

\* C3: a FIRE at a cell that is already HIT or MISS is answered ALREADY_SHOT
\* and changes neither a board, nor a ship's remaining cells, nor the phase,
\* nor current_turn.
C3_AlreadyShotNoChange ==
    [][\A p \in Seats : \A coord \in FireInputs(p) :
          (InProgress /\ FireOutcome(p, coord) = "already_shot" /\ Fire(p, coord))
            => (/\ out'[1].arg = "ALREADY_SHOT"
                /\ UNCHANGED << boards, placed_ships, game >>)]_vars

\* C4: as long as the placement phase lasts, that is as long as a player has
\* not completed placement, every FIRE of a player is answered with one
\* ERROR frame and changes no board cell, no ship's cells and no turn.
C4_FireRefusedInPlacement ==
    [][\A p \in Seats : \A coord \in FireInputs(p) :
          ((placement_phase \/ \E q \in Seats : ~placement_complete[q])
              /\ Fire(p, coord))
            => (AnsweredError(p) /\ UNCHANGED << boards, placed_ships, game >>)]_vars

\* a FIRE was refused for the phase while the firer's opponent has ships on
\* the board
C4_Witness ==
    /\ placement_phase
    /\ Len(out) = 1
    /\ out[1].text = "Game hasn't started yet. Place your ships first."
    /\ \E p \in Seats : /\ out[1].to = players[p]
                         /\ board_placed_ships[get_opponent_index(p)] # << >>

\* the roster types (ship names compared without case) on the board of p
TypesOnBoard(p) ==
    { Lower(board_placed_ships[p][j].name) : j \in 1 .. Len(board_placed_ships[p]) }

\* all five roster ships are on the board of p
AllRosterPlaced(p) ==
    \A i \in 1 .. Len(SHIPS) : Lower(SHIPS[i].name) \in TypesOnBoard(p)

\* C5: a player is marked ready exactly when all five roster ships are on
\* that player's board, the placement phase is over exactly when both
\* players are ready, and once it is over every PLACE is answered with an
\* ERROR frame and changes no board.
C5_ReadyIffAllPlaced ==
    /\ [](\A p \in Seats : placement_complete[p] <=> AllRosterPlaced(p))
    /\ [](InProgress <=> \A p \in Seats : placement_complete[p])
    /\ [][\A p \in Seats : \A cmd \in PlaceProbeInputs(p) :
             (InProgress /\ Place(p, cmd))
               => (AnsweredError(p) /\ UNCHANGED << boards, placed_ships >>)]_vars

\* C6: a PLACE naming, in any case, a roster ship that is already on the
\* player's board is answered with an ERROR frame and changes nothing; no
\* board ever holds two ships of one roster type.
C6_NoDuplicateShip ==
    /\ [][\A p \in Seats : \A cmd \in PlaceProbeInputs(p) :
             (/\ cmd.parts = 3
              /\ Lower(cmd.ship_name) \in TypesOnBoard(p)
              /\ Place(p, cmd))
               => (AnsweredError(p) /\ UNCHANGED << boards, placed_ships, game >>)]_vars
    /\ [](\A p \in Seats : \A i, j \in 1 .. Len(board_placed_ships[p]) :
             i # j => Lower(board_placed_ships[p][i].name)
                        # Lower(board_placed_ships[p][j].name))

\* C7: a PLACE commits a ship only if every cell of its run lies inside the
\* 10x10 grid and is EMPTY; a PLACE that commits no ship changes no cell and
\* no set of placed ships.
C7_PlaceAllOrNothing ==
    [][\A p \in Seats : \A cmd \in PlaceProbeInputs(p) :
          Place(p, cmd) =>
            LET run == RunCells(ParseRow(cmd.coord), ParseCol(cmd.coord),
                                ship_size_of(cmd.ship_name),
                                ParseOrientation(cmd.orientation))
            IN IF board_placed_ships'[p] # board_placed_ships[p]
               THEN /\ run \subseteq Cells
                    /\ \A c \in run : hidden_grid[p][c] = "."
               ELSE UNCHANGED << boards, placed_ships >>]_vars

\* the match has been won: it is in progress and every ship of one board
\* has no cell left
GameOver ==
    InProgress /\ \E b \in Seats : all_ships_sunk(board_placed_ships[b])

\* both boards and placements are as new and player 0 is on turn
MatchReset ==
    /\ hidden_grid = [i \in Seats |-> EmptyGrid]
    /\ display_grid = [i \in Seats |-> EmptyGrid]
    /\ board_placed_ships = [i \in Seats |-> << >>]
    /\ placed_ships = [i \in Seats |-> {}]
    /\ current_turn = 0

\* no handler of the Session is left
Terminated == \A p \in Seats : ~running[p]

\* C8: once a FIRE has emptied the last ship of a board the game is over,
\* and from then on no FIRE is resolved against a board: the boards stay as
\* they are unless a rematch resets them.
C8_NoFireAfterGameOver ==
    [][GameOver => (UNCHANGED boards \/ MatchReset')]_vars

\* C9: after the game is over a player's answer (a CHAT frame, the one frame
\* that carries free text), timeout or quit either starts the rematch (both
\* boards and placements reset, player 0 on turn) or leaves the Session
\* terminated.
C9_RematchOrTerminated ==
    [][\A p \in Seats :
          (GameOver /\ (Chat(p, ShortLen) \/ Timeout(p) \/ Quit(p)))
            => (MatchReset' \/ Terminated')]_vars

\* C10: an inactivity timeout of a player changes current_turn only if that
\* player is on turn, and both players are then sent a notification.
C10_TimeoutForfeitsOwnTurn ==
    [][\A p \in Seats :
          (InProgress /\ Timeout(p) /\ current_turn' # current_turn)
            => (/\ p = current_turn
                /\ \A q \in Seats : \E i \in 1 .. Len(out') :
                                        out'[i].to = players[q])]_vars

\* C11: an inactivity expiry never ends a handler and never closes its
\* connection, whatever the state of the other participants: after the
\* timeout of a player the handler of that player is still in its loop.
C11_TimeoutKeepsHandler ==
    [][\A p \in Seats : Timeout(p) => running'[p]]_vars

\* a frame has arrived, whole or in part, and parse_packet raises on it
BadFrame(w) == w.header > 0 /\ parse_packet(w) = "raise"

\* C12: a received frame whose checksum does not match, or that is short,
\* is dropped: the handler keeps running with its connection open, no game
\* state changes and no entry of the reconnect pool is created.
C12_BadFrameDropped ==
    [][\A p \in Seats : \A w \in Wires :
          (BadFrame(w) /\ ReadFailure(p, w))
            => (/\ running'[p]
                /\ UNCHANGED << boards, placed_ships, game, reconnect_pool >>)]_vars

\* an ERROR frame to seat p is among the frames of the pass
SentError(p) ==
    \E i \in 1 .. Len(out') :
        out'[i].to = players[p] /\ out'[i].type = PACKET_TYPE_ERROR

\* C13: whenever a FIRE or a PLACE of a player is answered with an ERROR
\* frame, both boards, every ship's remaining cells, both sets of placed
\* ships, current_turn and the phase are the same after it as before.
C13_ErrorLeavesState ==
    [][\A p \in Seats :
          ((\/ \E coord \in FireInputs(p) : Fire(p, coord)
            \/ \E cmd \in PlaceInputs(p) : Place(p, cmd))
           /\ SentError(p))
            => UNCHANGED << boards, placed_ships, game >>]_vars

\* the coordinate is a row letter A-J (in either case) followed by a column
\* number 1-10
GoodCoord(coord) ==
    /\ coord.numeric
    /\ Upper(coord.ch) \in 65 .. (65 + BOARD_SIZE - 1)
    /\ coord.num \in 1 .. BOARD_SIZE

\* C14: a FIRE or PLACE whose coordinate is not a row letter A-J followed by
\* a column number 1-10 is answered with an ERROR frame and changes no cell
\* of a board.
C14_BadCoordinateRefused ==
    [][\A p \in Seats :
          /\ \A coord \in FireInputs(p) :
                (~GoodCoord(coord) /\ Fire(p, coord))
                  => (AnsweredError(p) /\ UNCHANGED boards)
          /\ \A cmd \in PlaceInputs(p) :
                (cmd.parts = 3 /\ ~GoodCoord(cmd.coord) /\ Place(p, cmd))
                  => (AnsweredError(p) /\ UNCHANGED boards)]_vars

\* C15: a frame of unknown type (a JOIN after the first frame included) is
\* answered with exactly one ERROR frame that carries the sequence number of
\* the frame, the handler stays in its loop and nothing of the Session
\* changes; every ERROR frame that answers a received PLACE or FIRE carries
\* the sequence number of that frame.
C15_UnknownEchoesSeq ==
    [][\A p \in Seats :
          /\ \A seq \in Seqs : \A type \in UnknownTypes :
                Unknown(p, seq, type)
                  => (/\ AnsweredError(p)
                      /\ out'[1].seq = seq
                      /\ running'[p]
                      /\ UNCHANGED << boards, placed_ships, game, session,
                                      reconnect_pool >>)
          /\ \A i \in 1 .. Len(out') :
                (/\ out'[i].type = PACKET_TYPE_ERROR
                 /\ \/ \E coord \in FireInputs(p) : Fire(p, coord)
                    \/ \E cmd \in PlaceInputs(p) : Place(p, cmd))
                  => out'[i].seq = ClientSeq]_vars

\* a frame of unknown type with the largest sequence number was answered
\* while the match is being played
C15_Witness ==
    /\ InProgress
    /\ Len(out) = 1
    /\ out[1].text = "Unknown command."
    /\ out[1].seq = MaxSeq

\* the chat message is among the frames of the pass for connection c
ChatSentTo(c) ==
    \E i \in 1 .. Len(out') :
        out'[i].to = c /\ out'[i].type = PACKET_TYPE_CHAT /\ out'[i].text = "chat"

\* C16: for every CHAT frame of a player, in every phase and on either
\* turn, the chat message is sent to every connected participant of the
\* Session, the sender's handler keeps running and no game state changes.
C16_ChatReachesAll ==
    [][\A p \in Seats : \A len \in ChatLens :
          Chat(p, len)
            => (/\ \A q \in Seats : running[q] => ChatSentTo(players[q])
                /\ \A k \in 1 .. Len(spectators) : ChatSentTo(spectators[k])
                /\ running'[p]
                /\ UNCHANGED << boards, placed_ships, game >>)]_vars

\* the pass sent frames, the first a SHOW frame to seat p (as every pass
\* that serves a SHOW of seat p does)
SentShow(p) ==
    /\ Len(out') > 0
    /\ out'[1].type = PACKET_TYPE_SHOW
    /\ out'[1].to = players[p]

\* C17: a player's SHOW is served in every phase, changes no state, and its
\* response is the rendering of the requester's own display grid: nothing of
\* the opponent's board or ships enters it.
C17_ShowOwnBoardOnly ==
    [][\A p \in Seats :
          (SentShow(p) /\ Show(p))
            => (/\ UNCHANGED << boards, placed_ships, game, session, running,
                                reconnect_pool >>
                /\ out' = ShowFrames(players[p], ClientSeq, display_grid[p]))]_vars

\* a SHOW was answered while the two display grids differ
C17_Witness ==
    /\ InProgress
    /\ Len(out) = ChunkCount(RenderLen)
    /\ out[1].type = PACKET_TYPE_SHOW
    /\ display_grid[0] # display_grid[1]

\* the pass answered the connection handler h reads with exactly one frame,
\* an ERROR frame
SpectatorAnsweredError(h) ==
    /\ Len(out') = 1
    /\ out'[1].to = handlers[h].conn
    /\ out'[1].type = PACKET_TYPE_ERROR

\* a frame that broadcast_to_all sent
IsBroadcast(f) ==
    /\ f.type = PACKET_TYPE_CHAT
    /\ f.seq = 0
    /\ f.text \in {"chat", "fired at", "Game started! Fire away."}

\* C18: every frame of a spectator other than QUIT and CHAT (SHOW, PLACE,
\* FIRE, JOIN, an unknown type) is answered with an ERROR frame and changes
\* no board, placement, turn or phase; every broadcast of the Session is
\* sent to every attached spectator.
C18_SpectatorReadMostly ==
    [][/\ \A h \in DOMAIN handlers :
            (\/ SpectatorShow(h)
             \/ SpectatorPlace(h)
             \/ SpectatorFire(h)
             \/ \E seq \in Seqs : \E type \in UnknownTypes :
                   SpectatorUnknown(h, seq, type))
              => (/\ SpectatorAnsweredError(h)
                  /\ UNCHANGED << boards, placed_ships, game >>)
       /\ \A i \in 1 .. Len(out') :
            IsBroadcast(out'[i])
              => \A k \in 1 .. Len(spectators) :
                    \E j \in 1 .. Len(out') :
                       /\ IsBroadcast(out'[j])
                       /\ out'[j].to = spectators[k]
                       /\ out'[j].text = out'[i].text]_vars

\* C19: the handler started for an attached spectator reads and writes that
\* spectator's own connection and uses that spectator's name, every
\* attached connection has a handler, and no two live handlers read from
\* one socket.
C19_HandlerOwnsItsSocket ==
    /\ \A h \in DOMAIN handlers : handlers[h].conn = h
    /\ \A h \in DOMAIN handlers : \A k \in 1 .. Len(spectators) :
          spectators[k] = h => handlers[h].name = names[Cardinality(Seats) + k]
    /\ \A k \in 1 .. Len(spectators) :
          \E h \in DOMAIN handlers : handlers[h].conn = spectators[k]
    /\ \A h1, h2 \in DOMAIN handlers :
          h1 # h2 => handlers[h1].conn # handlers[h2].conn

\* C20: the Lobby creates the Session exactly when a second connection is
\* queued: the first queued connection gets seat 0 and the second seat 1,
\* each with its own name, one handler runs per seat and the queue is
\* emptied, so the queue never holds more than one connection between
\* accepts.
C20_PairsSecondQueued ==
    /\ [][(~current_game /\ current_game')
            <=> (Len(waiting) = 1 /\ \E name \in JoinInputs : Accept(name))]_vars
    /\ [][\A name \in JoinInputs :
            (Len(waiting) = 1 /\ Accept(name))
              => (/\ players'[0] = waiting[1]
                  /\ players'[1] = NewConn({})
                  /\ names' = << waiting_names[1], name >>
                  /\ \A p \in Seats : running'[p]
                  /\ waiting' = << >>)]_vars
    /\ [](Len(waiting) <= 1)

\* the Session is live: a GameState exists and a player handler runs or a
\* player is awaited in the reconnect pool
SessionActive ==
    current_game /\ ((\E p \in Seats : running[p]) \/ reconnect_pool # {})

\* C21: a connection that is no reconnect is attached as a spectator only
\* while a Session is live; once both players have left and nobody is
\* awaited, the Lobby queues it (or pairs it into a new Session) instead.
C21_SpectateOnlyLiveSession ==
    [][\A name \in JoinInputs :
          (/\ accepting
           /\ ~\E e \in reconnect_pool : e.name = name
           /\ Accept(name))
             => IF SessionActive
                THEN spectators' = Append(spectators, NewConn({}))
                ELSE /\ spectators' = spectators
                     /\ (waiting' # waiting \/ players' # players)]_vars

\* seat p's opponent is sent the notice of p's quit
ToldOfQuit(p) ==
    \E i \in 1 .. Len(out') :
       /\ out'[i].to = players[get_opponent_index(p)]
       /\ out'[i].text = "quit. You win!"
       /\ out'[i].arg = names[p + 1]

\* a QUIT of a player ends that player's handler, leaves the opponent's
\* handler as it is and tells a connected opponent
C22_PlayerQuit ==
    [][\A p \in Seats :
          Quit(p) => /\ ~running'[p]
                     /\ running'[get_opponent_index(p)] = running[get_opponent_index(p)]
                     /\ running[get_opponent_index(p)] => ToldOfQuit(p)
                     /\ UNCHANGED << spectators, handlers >>]_vars

\* a QUIT read from spectator c's socket ends the handler started for c,
\* and only that one, and takes c off the fan-out list
C22_SpectatorQuit ==
    [][\A h \in DOMAIN handlers :
          SpectatorQuit(h)
            => LET c == handlers[h].conn
               IN /\ DOMAIN handlers' = DOMAIN handlers \ {c}
                  /\ spectators' = RemoveFirst(spectators, c)
                  /\ ~InList(spectators', c)
                  /\ UNCHANGED << running, players >>]_vars

\* C22: a QUIT frame of a player always ends that player's handler and
\* closes its connection, and a connected opponent is told of the forfeit;
\* a QUIT frame of a spectator is always read, ends only that spectator's
\* handler and removes that spectator from the fan-out list.
C22_QuitEndsHandler ==
    /\ C22_PlayerQuit
    /\ C22_SpectatorQuit
    /\ [](\A k \in 1 .. Len(spectators) :
            \E h \in DOMAIN handlers : handlers[h].conn = spectators[k])

\* the reconnect pool holds an entry under seat p's name
Awaited(pool, p) ==
    \E e \in pool : e.name = names[p + 1] /\ e.opp_idx = get_opponent_index(p)

\* C23: when a player's connection fails, the handler records an entry
\* under that player's name in the reconnect pool, a connected opponent is
\* sent a notice of the disconnect, the handler ends, and the Session with
\* its boards, phase and turn stays as it is.
C23_FailureKeepsSession ==
    [][\A p \in Seats : \A w \in Wires :
          ReadFailure(p, w)
            => /\ Awaited(reconnect_pool', p)
               /\ ~running'[p]
               /\ running'[get_opponent_index(p)] = running[get_opponent_index(p)]
               /\ UNCHANGED << boards, placed_ships, game >>
               /\ running[get_opponent_index(p)]
                     => \E i \in 1 .. Len(out') :
                           out'[i].to = players[get_opponent_index(p)]]_vars

\* what the Session holds for seat p: its board and its placement
SeatState(p) ==
    << hidden_grid[p], display_grid[p], board_placed_ships[p],
       placed_ships[p], placement_complete[p] >>

\* a join under the name of a pool entry puts the connection on the seat
\* that name had, starts a handler for it and removes the entry
C24_Rehomed ==
    [][\A e \in reconnect_pool :
          Rejoin(e)
            => \E p \in Seats :
                  /\ names[p + 1] = e.name
                  /\ players'[p] = NewConn({p})
                  /\ running'[p]
                  /\ players'[get_opponent_index(p)] = players[get_opponent_index(p)]
                  /\ e \notin reconnect_pool'
                  /\ UNCHANGED << boards, placed_ships, game >>]_vars

\* from the disconnect to the rejoin the state kept for the awaited seat
\* stays what it was at the disconnect
C24_SavedStateKept ==
    [][\A p \in Seats :
          Awaited(reconnect_pool, p) => SeatState(p)' = SeatState(p)]_vars

\* C24: a player who rejoins under the name of its reconnect entry gets
\* its original seat back, the entry is removed, and the placement and
\* board state it resumes with are the state saved at the disconnect.
C24_RejoinResumes ==
    /\ C24_Rehomed
    /\ C24_SavedStateKept

\* C25: a reconnect entry older than RECONNECT_TIMEOUT is expired: a
\* client that joins under its name is not put back on the seat; the entry
\* is discarded and the client is treated as a new connection (attached as
\* a spectator or queued).
C25_OldEntryExpired ==
    [][\A e \in reconnect_pool :
          (e.old /\ Accept(e.name))
            => /\ e \notin reconnect_pool'
               /\ UNCHANGED << players, running >>
               /\ \/ spectators' = Append(spectators, NewConn({}))
                  \/ waiting' # waiting]_vars

\* the step records a reconnect entry
EntryMade == \E e \in reconnect_pool' : e \notin reconnect_pool

\* the handler of seat p ends on having won
WinsAndLeaves(p) ==
    /\ running[p] /\ ~running'[p]
    /\ \E i \in 1 .. Len(out') : out'[i].text = "You win!"

\* no entry is made by a handler pass that serves a QUIT
C26_NoEntryOnQuit ==
    [][\A p \in Seats : Quit(p) => ~EntryMade]_vars

\* no entry is made by a handler that ends on a win
C26_NoEntryOnWin ==
    [][\A p \in Seats : WinsAndLeaves(p) => ~EntryMade]_vars

\* no entry is made by a spectator's handler: every entry carries a
\* player's name
C26_NoEntryForSpectator ==
    /\ [][\A h \in DOMAIN handlers :
            (handlers' # handlers /\ h \notin DOMAIN handlers') => ~EntryMade]_vars
    /\ [](\A e \in reconnect_pool : \E p \in Seats : e.name = names[p + 1])

\* C26: a reconnect entry is made only when a player's handler ends on a
\* connection failure; a QUIT, a win and a spectator's exit make none.
C26_EntryOnlyOnFailure ==
    /\ C26_NoEntryOnQuit
    /\ C26_NoEntryOnWin
    /\ C26_NoEntryForSpectator
    /\ [][EntryMade => \E p \in Seats : \E w \in Wires : ReadFailure(p, w)]_vars

\* the triple the sender was asked to send has come out of a decode
CameBack ==
    /\ received.kind = "frame"
    /\ received.seq = outgoing.seq
    /\ received.type = outgoing.type
    /\ received.payload = outgoing.payload

\* C27: for every seq in 0..255, every packet type and every payload of at
\* most 255 bytes, decoding the frame that build_packet made returns
\* exactly (seq, type, payload), with the server's decoder and with the
\* client's; for a payload of more than 255 bytes build_packet fails and
\* makes no frame.
C27_CodecRoundTrip ==
    /\ BuildRaises(outgoing.payload) => stream = << >>
    /\ (flips = 0 /\ received # NoResult)
          => IF BuildRaises(outgoing.payload)
             THEN received.by = "sender"
             ELSE CameBack

\* the round trip when the frame arrives in one piece
C27_WholeArrival ==
    [][\A closed \in BOOLEAN :
          (flips = 0 /\ (ServerDecode(Len(stream), closed) \/ ClientDecode))
             => CameBack']_vars

\* a decode of a frame with one bit flipped returns no triple
C28_NoTriple == (flips = 1) => received.kind # "frame"

\* a decode of a frame with one bit flipped reports a checksum mismatch
C28_Mismatch ==
    (flips = 1 /\ received # NoResult)
       => received.kind \in {"Checksum mismatch", "CRC mismatch"}

\* C28: for every encoded frame and every bit position of it (seq, type,
\* len, payload or checksum bytes), decoding the frame with that one bit
\* flipped reports a checksum mismatch and never returns a triple.
C28_BitFlipDetected ==
    /\ C28_NoTriple
    /\ C28_Mismatch

\* a flipped bit outside the len byte is always reported as a checksum
\* mismatch
C28_OutsideLen ==
    (flips = 1 /\ received # NoResult
       /\ stream[3] = Len(encode(outgoing.payload)))
       => received.kind \in {"Checksum mismatch", "CRC mismatch"}

\* the frames a run of bytes is made of, cut by their len bytes
FramesOf[bytes \in Seq(Bytes)] ==
    IF Len(bytes) < 7 \/ Len(bytes) < 7 + bytes[3] THEN << >>
    ELSE << SubSeq(bytes, 1, 7 + bytes[3]) >>
            \o FramesOf[Slice(bytes, 7 + bytes[3] + 1, Len(bytes))]

PayloadOf(frame) == SubSeq(frame, 4, 3 + frame[3])

Bodies[frames \in Seq(Seq(Bytes))] ==
    IF frames = << >> THEN << >>
    ELSE Strip(PayloadOf(Head(frames))) \o Bodies[Tail(frames)]

\* the bytes are SHOW frames with bodies of at most 250 bytes, all but the
\* last prefixed with MORE\n and the last with LAST\n, and the bodies one
\* after the other are the bytes of view
WellChunked(view, bytes) ==
    LET frames == FramesOf[bytes]
    IN /\ Flatten[frames] = bytes
       /\ Len(frames) >= 1
       /\ \A i \in 1 .. Len(frames) :
            /\ client_parse_packet(frames[i]).kind = "frame"
            /\ frames[i][2] = PACKET_TYPE_SHOW
            /\ Len(PayloadOf(frames[i])) - 5 <= 250
            /\ startswith(PayloadOf(frames[i]),
                          IF i = Len(frames) THEN LAST ELSE MORE)
       /\ Bodies[frames] = encode(view)

\* the handler has just answered a SHOW with a rendering of over 255 bytes
SentLongBoard ==
    /\ Len(outgoing') = Len(outgoing) + 1
    /\ Len(encode(outgoing'[Len(outgoing')])) > 255

C29_Sender ==
    [][SentLongBoard
         => WellChunked(outgoing'[Len(outgoing')],
                        Slice(stream', Len(stream) + 1, Len(stream')))]_vars

\* the boards printed are, in order, the first of the boards sent, each
\* exactly once and byte for byte; an unfinished board is held back, and
\* once everything has arrived every board sent has been printed
C29_Receiver ==
    /\ Len(printed) <= Len(outgoing)
    /\ \A k \in 1 .. Len(printed) : encode(printed[k]) = encode(outgoing[k])
    /\ board_buffer # << >> => awaiting_board
    /\ awaiting_board =>
          /\ Len(printed) < Len(outgoing)
          /\ board_buffer = Slice(outgoing[Len(printed) + 1], 1, Len(board_buffer))
    /\ (stream = << >> /\ buffer = << >>) => Len(printed) = Len(outgoing)

\* C29: for every board string longer than 255 bytes the sender emits SHOW
\* frames whose bodies are at most 250 bytes, every frame but the last
\* prefixed with "MORE\n" and exactly the last with "LAST\n"; the receiver,
\* concatenating the bodies in arrival order, emits exactly one board on
\* LAST, and that board equals the original string byte for byte.
C29_ChunkedTransfer == C29_Sender /\ []C29_Receiver

\* two different boards of 600 bytes were sent in chunks, arrived in
\* pieces and were both printed
C29_Witness ==
    /\ Len(printed) = 2
    /\ Len(printed[1]) = 600
    /\ printed[2] # printed[1]
    /\ printed = outgoing
    /\ stream = << >>

\* fire_at has returned in this step: its result is sent to the shooter
FireAtReturned ==
    /\ Len(out') >= 1
    /\ out'[1].type = PACKET_TYPE_FIRE
    /\ out'[1].text = "RESULT"

\* a cell keeps its mark, or goes from '.' to 'o', or from 'S' to 'X'
CellStep(old, new) ==
    \/ new = old
    \/ old = "." /\ new = "o"
    \/ old = "S" /\ new = "X"

\* C30: board cells follow a one-way state machine under fire_at: an EMPTY
\* cell can only become MISS, a SHIP cell can only become HIT, and HIT and
\* MISS are terminal; firing at a HIT or MISS cell returns ALREADY_SHOT and
\* leaves the grid and every ship's remaining cells unchanged, so firing
\* twice at one cell yields HIT or MISS and then ALREADY_SHOT.
C30_CellStateMachine ==
    [][FireAtReturned => \A p \in Seats : \A coord \in FireInputs(p) :
          Fire(p, coord) =>
             LET opp == get_opponent_index(p)
                 at == GridCell(ParseRow(coord), ParseCol(coord))
                 cell == hidden_grid[opp][at]
             IN /\ \A i \in Seats : \A c \in Cells :
                      /\ CellStep(hidden_grid[i][c], hidden_grid'[i][c])
                      /\ (i # opp \/ c # at) =>
                            /\ hidden_grid'[i][c] = hidden_grid[i][c]
                            /\ display_grid'[i][c] = display_grid[i][c]
                /\ cell = "." =>
                      /\ out'[1].arg = "MISS"
                      /\ hidden_grid'[opp][at] = "o"
                      /\ display_grid'[opp][at] = "o"
                /\ cell = "S" =>
                      /\ out'[1].arg \in {"HIT", "HIT - Sunk"}
                      /\ hidden_grid'[opp][at] = "X"
                      /\ display_grid'[opp][at] = "X"
                /\ cell \in {"X", "o"} =>
                      /\ out'[1].arg = "ALREADY_SHOT"
                      /\ UNCHANGED boards
                /\ hidden_grid'[opp][at] \in {"X", "o"}]_vars

\* a second shot at a cell has been answered ALREADY_SHOT, on a board that
\* holds a HIT and a MISS
C30_Witness ==
    /\ Len(out) >= 1
    /\ out[1].type = PACKET_TYPE_FIRE
    /\ out[1].text = "RESULT"
    /\ out[1].arg = "ALREADY_SHOT"
    /\ \E i \in Seats :
          /\ \E c \in Cells : hidden_grid[i][c] = "X"
          /\ \E c \in Cells : hidden_grid[i][c] = "o"

\* ship number i of the board of seat b loses its last remaining cell in
\* this step
SinksNow(b, i) ==
    /\ board_placed_ships[b][i].positions # {}
    /\ board_placed_ships'[b][i].positions = {}

\* the ships of a board stay in the list under their names, and the
\* remaining cells of each only get fewer
OnlyShrinks ==
    \A b \in Seats : \A i \in 1 .. Len(board_placed_ships[b]) :
       /\ Len(board_placed_ships'[b]) >= i
       /\ board_placed_ships'[b][i].name = board_placed_ships[b][i].name
       /\ board_placed_ships'[b][i].positions \subseteq board_placed_ships[b][i].positions

\* the handler tells the shooter "You win!" in this step
ToldWin == \E k \in 1 .. Len(out') : out'[k].text = "You win!"

\* C31: fire_at returns a sunk ship's name exactly on the hit that removes
\* that ship's last remaining cell and returns no name on every other
\* call; a ship's remaining-cell set only shrinks and a sunk ship never
\* becomes unsunk; all_ships_sunk() is true if and only if every placed
\* ship's remaining-cell set is empty.
C31_SunkOnLastCell ==
    [][/\ OnlyShrinks
       /\ FireAtReturned => \A p \in Seats : \A coord \in FireInputs(p) :
             Fire(p, coord) =>
                LET opp == get_opponent_index(p)
                    ships == board_placed_ships[opp]
                    sunk == check_sunk(ships, ParseRow(coord), ParseCol(coord))
                IN /\ \A i \in 1 .. Len(ships) :
                         SinksNow(opp, i) <=> sunk = ships[i].name
                   /\ sunk = None <=> \A i \in 1 .. Len(ships) : ~SinksNow(opp, i)
                   /\ (sunk # None) <=> out'[1].arg = "HIT - Sunk"
                   /\ sunk # None => out'[1].arg # "ALREADY_SHOT" /\ out'[1].arg # "MISS"
                   /\ all_ships_sunk(board_placed_ships'[opp])
                         <=> \A i \in 1 .. Len(ships) :
                                board_placed_ships'[opp][i].positions = {}
                   /\ ToldWin
                         => \A i \in 1 .. Len(ships) :
                               board_placed_ships'[opp][i].positions = {}]_vars

\* the last ship of a board has just been sunk: the hit is answered with
\* the ship's name, every ship of the board is sunk and the shooter is
\* told of the win
C31_Witness ==
    /\ Len(out) >= 3
    /\ out[1].text = "RESULT"
    /\ out[1].arg = "HIT - Sunk"
    /\ \E k \in 1 .. Len(out) : out[k].text = "You win!"
    /\ \E b \in Seats :
          /\ Len(board_placed_ships[b]) = Len(SHIPS)
          /\ all_ships_sunk(board_placed_ships[b])

\* the handler of seat p has resolved a FIRE against the opponent's board
\* and has not yet completed the turn toggle that follows it
MidFire(p) ==
    /\ local[p].task = "fire"
    /\ pc[p] \in {"notify", "acquire", "load", "store"}

\* C32: each FIRE's turn check, board resolution and turn toggle execute as
\* one critical section under the Session lock: when both players' handlers
\* process a FIRE concurrently, the steps of one FIRE are never interleaved
\* with the other's, and at most one of two FIREs that observed the same
\* current_turn value is resolved against a board.
C32_FireCriticalSection ==
    \A p \in Seats :
       MidFire(p) =>
          /\ p \in lock
          /\ ~MidFire(get_opponent_index(p))

\* two FIREs that found the same current_turn are not both resolved
C32_OneFirePerTurn ==
    ~(MidFire(0) /\ MidFire(1) /\ local[0].turn = local[1].turn)

\* the statements a handler runs while it holds the lock: line 89
LockedSteps == {"load", "store", "release"}

\* a handler that holds the lock is at line 89, and what it does there
\* sends nothing and reads no socket
LockOnlyForMutation ==
    [][\A p \in Seats :
          /\ p \in lock' => pc'[p] \in LockedSteps
          /\ (p \in lock /\ pc'[p] # pc[p]) =>
                /\ pc[p] \in LockedSteps
                /\ out' = << >>
                /\ UNCHANGED << boards, running, players, spectators >>]_vars

\* C33: no handler holds the Session lock while it performs a socket write
\* or a blocking read: the lock is held only for pure state mutation, so a
\* handler blocked on a slow or dead peer never prevents another handler
\* from acquiring the lock, and no reachable state has a handler waiting
\* forever for the Session lock.
C33_LockNeverBlocks ==
    /\ LockOnlyForMutation
    /\ \A p \in Seats : (pc[p] = "acquire") ~> (p \in lock)
    /\ \A p \in Seats : (p \in lock) ~> (lock = {})

\* one handler waits for the lock while the other one holds it
C33_Witness ==
    \E p \in Seats :
       /\ pc[p] = "acquire"
       /\ lock = { get_opponent_index(p) }

\* C34: in every reachable state current_turn is 0 or 1, every change of
\* current_turn flips it to the other value, and toggles issued
\* concurrently by the two handlers (a FIRE by one player and a timeout of
\* the other) are never lost: n completed toggles leave current_turn equal
\* to n mod 2 (starting from 0).
C34_TogglesNeverLost ==
    /\ current_turn \in {0, 1}
    /\ current_turn = toggles % 2
    /\ \A p \in Seats : pc[p] = "store" => local[p].value = 1 - current_turn

\* a FIRE of one player and a timeout of the other reached switch_turn
\* together, and both toggles are done
C34_Witness ==
    \E p \in Seats :
       /\ pc[p] = "release"
       /\ local[p].task = "timeout"
       /\ pc[get_opponent_index(p)] = "acquire"
       /\ local[get_opponent_index(p)].task = "fire"
       /\ toggles = 2

\* C36: in each Session the PLACEMENT to IN_PROGRESS transition and its
\* "Game started" announcement happen at most once, even when the two
\* players' final PLACE frames are processed concurrently by their two
\* handlers.
C36_StartsOnce == starts <= 1

\* every board printed is one of the boards sent, whole
PrintedWhole ==
    \A k \in 1 .. Len(printed) :
       \E j \in 1 .. Len(outgoing) : printed[k] = outgoing[j]

\* C35: the receiver never emits a board built from an incomplete chunk
\* sequence: every emitted board is the concatenation of exactly the chunk
\* bodies of one complete MORE...LAST sequence; a partial buffer left by a
\* connection loss or a dropped chunk is never delivered and never leaks
\* into a later board.
C35_NoPartialBoard ==
    /\ PrintedWhole
    /\ awaiting_board =>
          \E j \in 1 .. Len(outgoing) :
             board_buffer = Slice(outgoing[j], 1, Len(board_buffer))

\* the same, as long as no chunk was damaged: a connection loss alone
\* never lets a partial board out
C35_LossDiscards == (flips = 0) => C35_NoPartialBoard

\* ------------------------------------------------------------------------
\* A match on boards whose Destroyer lies on the right edge
\* ------------------------------------------------------------------------
\* the placement both clients work through in order: the script with the
\* Destroyer at "E9 H", the cells E9 and E10
EdgeScript ==
    [PlaceScript EXCEPT ![5] = PlaceCmd(Coord(69, 9, ShortLen), "H", "Destroyer")]

\* the PLACE payloads seat p may send next: the edge script up to its next
\* entry
EdgeInputs(p) == { EdgeScript[i] : i \in 1 .. NextScript(p) }

\* the FIRE payloads seat p may send next: "E0", and for the probing seat
\* the next cell of the hunt through the opponent's ships
EdgeFire(p) ==
    { Coord(69, 0, ShortLen) } \cup
      (IF p = ProbingSeat
       THEN NextTarget(board_placed_ships[get_opponent_index(p)]) ELSE {})

NextEdge ==
    \/ \E p \in Seats : \E cmd \in EdgeInputs(p) : Place(p, cmd)
    \/ \E p \in Seats : \E coord \in EdgeFire(p) : Fire(p, coord)

SpecEdge == Init /\ [][NextEdge]_vars

\* the cells of a board that are in state SHIP
ShipCells(grid) == { c \in Cells : grid[c] = "S" }

\* the remaining positions of a ship as the grid cells they index
RemainingCells(ship) == { GridCell(rc[1], rc[2]) : rc \in ship.positions }

\* C37: for every ship placed through PLACE, the ship's remaining-cell set
\* equals the set of grid cells it occupies that are still in state SHIP;
\* hence once every occupied cell of a player's board has been fired at and
\* is HIT, all_ships_sunk() is true for that board, so a match can always
\* be won.
C37_RemainingIsShipCells ==
    \A p \in Seats :
       /\ ShipCells(hidden_grid[p]) =
             UNION { RemainingCells(board_placed_ships[p][i]) :
                       i \in 1 .. Len(board_placed_ships[p]) }
       /\ (is_complete(placed_ships[p]) /\ ShipCells(hidden_grid[p]) = {})
             => all_ships_sunk(board_placed_ships[p])

\* the second half alone: a board with all ships placed and no SHIP cell
\* left has all ships sunk
C37_Winnable ==
    \A p \in Seats :
       (is_complete(placed_ships[p]) /\ ShipCells(hidden_grid[p]) = {})
          => all_ships_sunk(board_placed_ships[p])

\* the registry holds an entry that gives seat s to a joiner
HasEntry(pool, s) == \E e \in pool : 1 - e.opp_idx = s

\* C38: no two handlers ever process frames for the same player seat of a
\* Session at the same time: the Lobby starts a rejoin handler for a seat
\* only after the previous handler of that seat has left its read loop, and
\* after a successful rejoin a further connection under the same name is
\* not given that seat again.
C38_OneHandlerPerSeat ==
    /\ [](\A s \in Seats : running[s] => ~HasEntry(reconnect_pool, s))
    /\ [][\A e \in reconnect_pool :
            Rejoin(e) => /\ ~running[1 - e.opp_idx]
                         /\ ~HasEntry(reconnect_pool', 1 - e.opp_idx)
                         /\ ~\E o \in reconnect_pool' : o.name = e.name]_vars

\* a rejoin has just put a handler on a seat, and the registry has nothing
\* left under that player's name
C38_Witness ==
    \E p \in Seats :
       /\ running[p]
       /\ out = << Welcome(players[p]) >>
       /\ ~\E e \in reconnect_pool : e.name = names[p + 1]

\* ------------------------------------------------------------------------
\* A Session of two players under one display name
\* ------------------------------------------------------------------------
\* receive_name: the name of a client whose first frame is not JOIN, fails
\* its checks or carries a blank name
Anonymous == "Anonymous"

\* the Lobby has paired two such clients and has started their handlers
InitNamesake ==
    /\ hidden_grid = [i \in Seats |-> EmptyGrid]
    /\ display_grid = [i \in Seats |-> EmptyGrid]
    /\ board_placed_ships = [i \in Seats |-> << >>]
    /\ placed_ships = [i \in Seats |-> {}]
    /\ current_turn = 0
    /\ placement_phase = TRUE
    /\ placement_complete = [i \in Seats |-> FALSE]
    /\ running = [i \in Seats |-> TRUE]
    /\ reconnect_pool = {}
    /\ out = << >>
    /\ players = [i \in Seats |-> i]
    /\ names = << Anonymous, Anonymous >>
    /\ spectators = << >>
    /\ handlers = << >>
    /\ waiting = << >>
    /\ waiting_names = << >>
    /\ current_game = TRUE
    /\ accepting = TRUE
    /\ LinkIdle

\* the names of the JOIN frames the Lobby of this Session may receive: the
\* players' name and the names of the reconnect pool
NamesakeInputs == { Anonymous } \cup { e.name : e \in reconnect_pool }

\* the players follow the placement script, fire the probes, chat, quit and
\* lose their connections; clients join under the players' name
NextNamesake ==
    \/ \E name \in NamesakeInputs : Accept(name)
    \/ \E p \in Seats : Place(p, PlaceScript[NextScript(p)])
    \/ \E p \in Seats : \E coord \in FewFireProbes : Fire(p, coord)
    \/ \E p \in Seats : \E len \in ChatLens : Chat(p, len)
    \/ \E p \in Seats : Quit(p)
    \/ \E p \in Seats : \E w \in Wires : ReadFailure(p, w)

SpecNamesake == InitNamesake /\ [][NextNamesake]_vars

\* C40: a ReconnectionEntry is never overwritten or lost while its seat is
\* vacant: once a failing handler has inserted the entry for a seat, it
\* stays in the registry until a rejoin fills that same seat, also when
\* another player with the same display name (two players both named
\* "Anonymous") disconnects in the meantime; so every vacant seat stays
\* recoverable.
C40_EntryKept ==
    [][\A s \in Seats :
          HasEntry(reconnect_pool, s) =>
             \/ HasEntry(reconnect_pool', s)
             \/ (~running[s] /\ running'[s])]_vars

\* C39: the Lobby's accept loop never stops because of one client: whatever
\* a client does (an over-long display name, a first frame that is not JOIN
\* or fails its checksum, a queued player disconnecting before being
\* paired), the Lobby goes on to accept and classify every later
\* connection.
C39_AcceptLoopRuns == accepting

====
